---------------------------- MODULE Spec2Model ----------------------------
(***************************************************************************)
(* A model of the spacer ray tracer: the ray/scene intersection engine     *)
(* (Sphere, HittableList, BvhNode, Aabb, Interval), the striped parallel   *)
(* renderer (Image::split_n, Camera::render_to, MtRenderer::render), the   *)
(* recursive path integrator (ray_color), Material::scatter, and the u32    *)
(* and usize size computations of Image (Image::new, split_n, ppm::write). *)
(*                                                                         *)
(* Numbers.  f32 values are held as exact integers.  World coordinates,    *)
(* radii and direction components are whole numbers.  A ray parameter t    *)
(* is held as the integer TUnit * t, where TUnit is the largest direction  *)
(* magnitude in Rays, so that the quotients (h -+ sqrt(disc)) / a and      *)
(* (slab - origin) / dir that the code forms are whole numbers of 1/TUnit. *)
(* The scenes, rays and intervals below are chosen so that every f32       *)
(* operation the code performs on them is exact (see ExactDomain), hence   *)
(* the integer model computes the very values the code computes.           *)
(* f32::INFINITY, -INFINITY and NaN are the sentinels PosInf, NegInf, NaN, *)
(* and every comparison and min/max goes through the IEEE rules below.     *)
(***************************************************************************)
EXTENDS Integers, Sequences, FiniteSets, TLC

VARIABLES
    objects,    \* HittableList.objects: the sequence of primitives added
    bbox,       \* HittableList.bbox
    bvh,        \* the BvhNode built from the list, or NoBvh
    ray,        \* the ray of the queries
    t_range,    \* the query interval of the queries
    listHit,    \* result of the last HittableList::hit on the current list
    bvhHit,     \* result of the last BvhNode::hit on bvh
    sphereHit,  \* the sphere and the result of the last direct Sphere::hit
    added       \* the objects handed to HittableList::add so far, in call order

hitVars == <<objects, bbox, bvh, ray, t_range, listHit, bvhHit, sphereHit, added>>

VARIABLES
    imgW,       \* Image.width
    imgH,       \* Image.height
    nWorkers,   \* the worker count n handed to split_n
    spp,        \* CameraParams.samples_per_pixel
    rpc,        \* where the render call stands
    stripes,    \* the Vec<SubImage> split_n returned
    workers,    \* the spawned stripe workers, in spawn order
    writes,     \* per byte of Image.pixels, the workers that wrote it, in order
    sampled     \* per pixel of the image, the camera rays sampled for it

renderVars == <<imgW, imgH, nWorkers, spp, rpc, stripes, workers, writes, sampled>>

VARIABLES
    rcN,          \* the bounces argument of the outermost ray_color call
    rcBounces,    \* the bounces argument of the innermost ray_color call
    rcStack,      \* the attenuations of the suspended callers, outermost first
    rcPc,         \* "call": the innermost call runs; "return": it has returned
    rcValue,      \* the Color the innermost call returned
    hitEvals,     \* how often ray.hit(world, ..) was evaluated
    scatterEvals, \* how often material.scatter was evaluated
    rcPath,       \* every attenuation scattered along the path, in order
    rcEnd         \* what stopped the recursion, and the Color returned there

colorVars == <<rcN, rcBounces, rcStack, rcPc, rcValue, hitEvals, scatterEvals, rcPath, rcEnd>>

VARIABLES
    scMaterial, \* the Material whose scatter is called
    scRay,      \* the incoming ray
    scHit,      \* the HitRecord of the hit being scattered
    scRnd,      \* the vector Vec3::random_on_sphere() returns in the call
    scDraw,     \* the number fastrand::f32() returns in the call, in 1/DrawSteps
    scOut       \* the Option<(Color, Ray)> the call returned

scatterVars == <<scMaterial, scRay, scHit, scRnd, scDraw, scOut>>

VARIABLES
    ivA, ivB, ivC,  \* three Intervals
    boxA, boxB,     \* two Aabbs
    mathOut         \* what the Interval and Aabb operations returned on them

mathVars == <<ivA, ivB, ivC, boxA, boxB, mathOut>>

VARIABLES
    szWidth,    \* the width handed to Image::new
    szHeight,   \* the height handed to Image::new
    szN,        \* the stripe count n handed to split_n
    szChecks,   \* the build panics on integer overflow (overflow-checks)
    szImage,    \* what Image::new gave: the sizes of the Image, or no Image
    szSplit,    \* what split_n gave: the sizes of the stripes, or a panic
    szWrite     \* what ppm::write gave: written, or a panic

sizeVars == <<szWidth, szHeight, szN, szChecks, szImage, szSplit, szWrite>>

pureVars == <<scatterVars, mathVars, sizeVars>>

vars == <<hitVars, renderVars, colorVars, pureVars>>

----------------------------------------------------------------------------
(* Bounds of the model *)

\* the largest number of objects added to a HittableList
MaxObjects == 3

----------------------------------------------------------------------------
(* f32 *)

\* f32::INFINITY
PosInf == 1000000
\* f32::NEG_INFINITY
NegInf == -PosInf
\* the NaN that 0.0 / 0.0 yields
NaN == PosInf + 1

IsFinite(x) == x # NaN /\ x # PosInf /\ x # NegInf

\* a < b, a <= b, a >= b on f32: false when either side is NaN
FLt(a, b) == a # NaN /\ b # NaN /\ a < b
FLe(a, b) == a # NaN /\ b # NaN /\ a <= b
FGe(a, b) == a # NaN /\ b # NaN /\ a >= b

\* f32::max and f32::min: a NaN argument is ignored
FMax(a, b) == IF a = NaN THEN b ELSE IF b = NaN THEN a ELSE IF a >= b THEN a ELSE b
FMin(a, b) == IF a = NaN THEN b ELSE IF b = NaN THEN a ELSE IF a <= b THEN a ELSE b

\* a - b on f32 (b finite)
FSub(a, b) == IF IsFinite(a) THEN a - b ELSE a

\* a + b on f32 (b finite)
FAdd(a, b) == IF IsFinite(a) THEN a + b ELSE a

\* exact integer quotient n / d, d # 0 (the inputs keep it exact)
Quot(n, d) == IF d > 0 THEN n \div d ELSE (-n) \div (-d)

Abs(x) == IF x < 0 THEN -x ELSE x

\* f32::sqrt of a perfect square
ISqrt(n) == CHOOSE s \in 0..n : s * s <= n /\ n < (s + 1) * (s + 1)

----------------------------------------------------------------------------
(* Vec3 *)

vec3(x, y, z) == [x |-> x, y |-> y, z |-> z]

VSub(u, v) == vec3(u.x - v.x, u.y - v.y, u.z - v.z)
VAdd(u, v) == vec3(u.x + v.x, u.y + v.y, u.z + v.z)
VNeg(u) == vec3(-u.x, -u.y, -u.z)
dot(u, v) == u.x * v.x + u.y * v.y + u.z * v.z
length_squared(u) == dot(u, u)

\* Vec3::fast_renormalized: v * (0.5 * (3 - |v|^2))
fast_renormalized(v) ==
    LET k == 3 - length_squared(v)
    IN  vec3(Quot(v.x * k, 2), Quot(v.y * k, 2), Quot(v.z * k, 2))

----------------------------------------------------------------------------
(* Materials, spheres, rays and query intervals of the model *)

\* A Color is held in 20ths: the component 1.0 is 20
WHITE == <<20, 20, 20>>
BLACK == <<0, 0, 0>>
RED == <<20, 0, 0>>
GREEN == <<0, 20, 0>>
\* main.rs: SKY_COLOR = (0.5, 0.7, 1.0)
SKY_COLOR == <<10, 14, 20>>

\* the model's 1.0 of a Color component
One == WHITE[1]

\* impl Mul for Color: element-wise
ColorMul(c, rhs) ==
    <<(c[1] * rhs[1]) \div One, (c[2] * rhs[2]) \div One, (c[3] * rhs[3]) \div One>>

\* impl Add for Color
ColorAdd(c, rhs) == <<c[1] + rhs[1], c[2] + rhs[2], c[3] + rhs[3]>>

\* Color * a for a scalar a = a2 / 2
ColorScaleHalves(c, a2) == <<(c[1] * a2) \div 2, (c[2] * a2) \div 2, (c[3] * a2) \div 2>>

Lambertian(albedo) == [kind |-> "Lambertian", albedo |-> albedo]
Metalic(albedo, fuzz) == [kind |-> "Metalic", albedo |-> albedo, fuzz |-> fuzz]
Dielectric(ior) == [kind |-> "Dielectric", ior |-> ior]

Sphere(center, radius, material) ==
    [kind |-> "sphere", center |-> center, radius |-> radius, material |-> material]

\* S1 and S2 touch internally at (3,0,0); S4 is tangent to the lines y = 0,
\* y = 2 and x = 3; S3 lies behind S1 and S2 on the x axis.
S1 == Sphere(vec3(4, 0, 0), 1, Lambertian(RED))
S2 == Sphere(vec3(5, 0, 0), 2, Metalic(GREEN, 0))
S3 == Sphere(vec3(8, 0, 0), 1, Dielectric(2))
S4 == Sphere(vec3(4, 1, 0), 1, Lambertian(GREEN))

Spheres == {S1, S2, S3, S4}

Ray(origin, dir) == [origin |-> origin, dir |-> dir]

Rays == {
    Ray(vec3(0, 0, 0), vec3(1, 0, 0)),
    Ray(vec3(4, 0, 0), vec3(-2, 0, 0)),
    Ray(vec3(0, 2, 0), vec3(1, 0, 0)),
    Ray(vec3(3, -3, 0), vec3(0, 1, 0)) }

\* the number of model units per unit of the ray parameter t
TUnit ==
    LET mags == UNION {{Abs(r.dir.x), Abs(r.dir.y), Abs(r.dir.z)} : r \in Rays}
    IN  CHOOSE m \in mags : \A k \in mags : k <= m

\* Interval::new
Interval(min, max) == [min |-> min, max |-> max]

\* query intervals, in units of 1/TUnit: [0,inf), [0,3], [3,inf), [3.5,5]
Ranges == {
    Interval(0, PosInf),
    Interval(0, 3 * TUnit),
    Interval(3 * TUnit, PosInf),
    Interval(7, 5 * TUnit) }

----------------------------------------------------------------------------
(* Interval *)

\* Interval::EMPTY
IntervalEMPTY == Interval(PosInf, NegInf)

\* Interval::ordered: a NaN first argument falls to the else branch
ordered(a, b) == IF FLt(a, b) THEN Interval(a, b) ELSE Interval(b, a)

\* Interval::length
Length(i) == IF IsFinite(i.min) /\ IsFinite(i.max) THEN i.max - i.min
             ELSE IF i.max = NaN \/ i.min = NaN THEN NaN
             ELSE IF i.max = PosInf /\ i.min = PosInf THEN NaN
             ELSE IF i.max = NegInf /\ i.min = NegInf THEN NaN
             ELSE IF i.max = PosInf \/ i.min = NegInf THEN PosInf
             ELSE NegInf

\* Interval::is_empty
is_empty(i) == FGe(i.min, i.max)

\* Interval::contains
contains(i, x) == FLe(i.min, x) /\ FLe(x, i.max)

\* Interval::intersect keeping its own max (a plausible slip: the second
\* bound not combined)
IntersectKeepsMax(i, other) == Interval(FMax(i.min, other.min), i.max)

\* Interval::intersect
intersect(i, other) == Interval(FMax(i.min, other.min), FMin(i.max, other.max))

\* Interval::enclose
IntervalEnclose(i, other) == Interval(FMin(i.min, other.min), FMax(i.max, other.max))

----------------------------------------------------------------------------
(* Aabb *)

Aabb(x_axis, y_axis, z_axis) == [x_axis |-> x_axis, y_axis |-> y_axis, z_axis |-> z_axis]

\* Aabb::EMPTY
AabbEMPTY == Aabb(IntervalEMPTY, IntervalEMPTY, IntervalEMPTY)

\* Aabb::from_center
from_center(center, half_size) ==
    Aabb(Interval(center.x - half_size.x, center.x + half_size.x),
         Interval(center.y - half_size.y, center.y + half_size.y),
         Interval(center.z - half_size.z, center.z + half_size.z))

\* Aabb::enclose with the y axis built from the x axes (a plausible slip of
\* copying a line)
AabbEncloseCopiedAxis(a, other) ==
    Aabb(IntervalEnclose(a.x_axis, other.x_axis),
         IntervalEnclose(a.x_axis, other.x_axis),
         IntervalEnclose(a.z_axis, other.z_axis))

\* Aabb::enclose
AabbEnclose(a, other) ==
    Aabb(IntervalEnclose(a.x_axis, other.x_axis),
         IntervalEnclose(a.y_axis, other.y_axis),
         IntervalEnclose(a.z_axis, other.z_axis))

\* Aabb::longest_axis with >= for > in the first comparison (a plausible
\* slip: ties go to X)
LongestAxisTiesToX(b) ==
    IF FGe(Length(b.x_axis), Length(b.y_axis))
    THEN IF FLt(Length(b.z_axis), Length(b.x_axis)) THEN "X" ELSE "Z"
    ELSE IF FLt(Length(b.z_axis), Length(b.y_axis)) THEN "Y" ELSE "Z"

\* Aabb::longest_axis
longest_axis(b) ==
    IF FLt(Length(b.y_axis), Length(b.x_axis))
    THEN IF FLt(Length(b.z_axis), Length(b.x_axis)) THEN "X" ELSE "Z"
    ELSE IF FLt(Length(b.z_axis), Length(b.y_axis)) THEN "Y" ELSE "Z"

\* (slab - origin) / dir in f32, as a ray parameter: x/0 is +-inf, 0/0 is NaN
SlabT(slab, origin, dir) ==
    LET num == FSub(slab, origin)
    IN  IF num = NaN THEN NaN
        ELSE IF dir = 0
             THEN IF num = 0 THEN NaN ELSE IF num > 0 THEN PosInf ELSE NegInf
        ELSE IF num = PosInf THEN (IF dir > 0 THEN PosInf ELSE NegInf)
        ELSE IF num = NegInf THEN (IF dir > 0 THEN NegInf ELSE PosInf)
        ELSE Quot(TUnit * num, dir)

\* one round of the loop of Aabb::hit: the running intersection after an axis
SlabStep(intersection, axis, origin, dir) ==
    intersect(intersection,
              ordered(SlabT(axis.min, origin, dir), SlabT(axis.max, origin, dir)))

\* Aabb::hit: the slab test, rejecting as soon as the intersection is_empty
AabbHit(b, r, ray_t) ==
    LET i1 == SlabStep(ray_t, b.x_axis, r.origin.x, r.dir.x)
        i2 == SlabStep(i1, b.y_axis, r.origin.y, r.dir.y)
        i3 == SlabStep(i2, b.z_axis, r.origin.z, r.dir.z)
    IN  IF is_empty(i1) THEN FALSE
        ELSE IF is_empty(i2) THEN FALSE
        ELSE IF is_empty(i3) THEN FALSE
        ELSE TRUE

----------------------------------------------------------------------------
(* Ray, HitRecord, Sphere *)

\* Option<HitRecord>::None
None == [some |-> FALSE]

\* Some(HitRecord {..})
HitRecord(point, normal, t, is_front_face, material) ==
    [some |-> TRUE, point |-> point, normal |-> normal, t |-> t,
     is_front_face |-> is_front_face, material |-> material]

\* Ray::at: origin + dir * t, t given in units of 1/TUnit
at(r, t) ==
    vec3(r.origin.x + Quot(r.dir.x * t, TUnit),
         r.origin.y + Quot(r.dir.y * t, TUnit),
         r.origin.z + Quot(r.dir.z * t, TUnit))

\* num / a in f32, as a ray parameter
RootT(num, a) ==
    IF a = 0 THEN (IF num = 0 THEN NaN ELSE IF num > 0 THEN PosInf ELSE NegInf)
    ELSE Quot(TUnit * num, a)

\* Sphere::bounding_box
SphereBoundingBox(s) == from_center(s.center, vec3(s.radius, s.radius, s.radius))

\* the HitRecord Sphere::hit builds for the accepted root t
SphereRecord(s, r, t) ==
    LET point == at(r, t)
        d == VSub(point, s.center)
        out_normal == fast_renormalized(
            vec3(Quot(d.x, s.radius), Quot(d.y, s.radius), Quot(d.z, s.radius)))
        is_front_face == dot(r.dir, out_normal) < 0
        normal == IF is_front_face THEN out_normal ELSE VNeg(out_normal)
    IN  HitRecord(point, normal, t, is_front_face, s.material)

\* Sphere::hit with the second root accepted unchecked (a plausible slip:
\* the inner contains test left out)
SphereHitUnchecked(s, r, range) ==
    LET oc == VSub(s.center, r.origin)
        a == length_squared(r.dir)
        h == dot(r.dir, oc)
        c == length_squared(oc) - s.radius * s.radius
        discriminant == h * h - a * c
    IN  IF discriminant < 0 THEN None
        ELSE LET dsqrt == ISqrt(discriminant)
                 t1 == RootT(h - dsqrt, a)
                 t2 == RootT(h + dsqrt, a)
             IN  IF contains(range, t1) THEN SphereRecord(s, r, t1)
                 ELSE SphereRecord(s, r, t2)

\* Sphere::hit trying the larger root first (a plausible slip: the signs of
\* the two roots exchanged)
SphereHitLargerFirst(s, r, range) ==
    LET oc == VSub(s.center, r.origin)
        a == length_squared(r.dir)
        h == dot(r.dir, oc)
        c == length_squared(oc) - s.radius * s.radius
        discriminant == h * h - a * c
    IN  IF discriminant < 0 THEN None
        ELSE LET dsqrt == ISqrt(discriminant)
                 t1 == RootT(h + dsqrt, a)
                 t2 == RootT(h - dsqrt, a)
             IN  IF contains(range, t1) THEN SphereRecord(s, r, t1)
                 ELSE IF contains(range, t2) THEN SphereRecord(s, r, t2)
                 ELSE None

\* Sphere::hit
SphereHit(s, r, range) ==
    LET oc == VSub(s.center, r.origin)
        a == length_squared(r.dir)
        h == dot(r.dir, oc)
        c == length_squared(oc) - s.radius * s.radius
        discriminant == h * h - a * c
    IN  IF discriminant < 0 THEN None
        ELSE LET dsqrt == ISqrt(discriminant)
                 t1 == RootT(h - dsqrt, a)
                 t2 == RootT(h + dsqrt, a)
             IN  IF contains(range, t1) THEN SphereRecord(s, r, t1)
                 ELSE IF contains(range, t2) THEN SphereRecord(s, r, t2)
                 ELSE None

----------------------------------------------------------------------------
(* HittableList *)

\* f32::total_cmp(a, b) = Less, on the non-NaN values a hit's t takes
TotalLess(a, b) == a < b

\* Iterator::min_by over the hits in list order: of several equally minimal
\* hits the first one is returned
RECURSIVE MinBy(_)
MinBy(hits) ==
    IF Len(hits) = 0 THEN None
    ELSE IF Len(hits) = 1 THEN hits[1]
    ELSE LET rest == MinBy(Tail(hits))
         IN  IF TotalLess(rest.t, hits[1].t) THEN rest ELSE hits[1]

\* the subsequence of the elements of a sequence of Option<HitRecord> that are Some
RECURSIVE FilterSome(_)
FilterSome(hs) ==
    IF Len(hs) = 0 THEN <<>>
    ELSE IF hs[1].some THEN <<hs[1]>> \o FilterSome(Tail(hs))
    ELSE FilterSome(Tail(hs))

\* the loop over the slice stopping one object early (a plausible slip)
RECURSIVE EncloseAllButLast(_, _)
EncloseAllButLast(box, objs) ==
    IF Len(objs) <= 1 THEN box
    ELSE EncloseAllButLast(AabbEnclose(box, SphereBoundingBox(objs[1])), Tail(objs))

\* the enclose of the bounding boxes of a sequence of spheres, from Aabb::EMPTY
RECURSIVE EncloseAll(_, _)
EncloseAll(box, objs) ==
    IF Len(objs) = 0 THEN box
    ELSE EncloseAll(AabbEnclose(box, SphereBoundingBox(objs[1])), Tail(objs))

----------------------------------------------------------------------------
(* BvhNode *)

NoBvh == [kind |-> "none"]

BvhNode(left, right, box) == [kind |-> "bvh", left |-> left, right |-> right, bbox |-> box]

\* the key of `compare`: the minimum of the bounding box along the chosen axis
MinAlong(axis, o) ==
    LET b == SphereBoundingBox(o)
    IN  IF axis = "X" THEN b.x_axis.min
        ELSE IF axis = "Y" THEN b.y_axis.min
        ELSE b.z_axis.min

\* the orders sort_unstable_by(compare) may leave the slice in: every
\* permutation that is ascending in the key (equal keys in any order)
SortUnstable(objs, axis) ==
    LET n == Len(objs)
        perms == {f \in [1..n -> 1..n] : \A i, j \in 1..n : i # j => f[i] # f[j]}
        sorted == {f \in perms : \A i \in 1..(n - 1) :
                      MinAlong(axis, objs[f[i]]) <= MinAlong(axis, objs[f[i + 1]])}
    IN  {[i \in 1..n |-> objs[f[i]]] : f \in sorted}

\* what BvhNode::new leaves when the recursion of from_hittables exhausts the
\* call stack: the process is aborted, no node is returned
StackOverflow == [kind |-> "overflow"]

\* the number of nested from_hittables calls the call stack holds
MaxStack == 8

\* the lengths of the slices from_hittables passes to its recursive calls, for
\* a slice of length n: none for 1 or 2 objects, else the two sides of
\* split_at_mut(n / 2)
RecursiveSlices(n) ==
    IF n = 1 \/ n = 2 THEN {} ELSE {n \div 2, n - n \div 2}

\* the call from_hittables on a slice of length n, entered as the d-th nested
\* call, runs out of stack
RECURSIVE Overflows(_, _)
Overflows(n, d) ==
    IF d > MaxStack THEN TRUE
    ELSE \E m \in RecursiveSlices(n) : Overflows(m, d + 1)

\* from_hittables with the midpoint rounded up (a plausible slip: the larger
\* half goes to the left)
RECURSIVE from_hittablesCeilSplit(_)
from_hittablesCeilSplit(objs) ==
    LET box == EncloseAll(AabbEMPTY, objs)
        axis == longest_axis(box)
        n == Len(objs)
    IN  IF n = 1 THEN {[node |-> BvhNode(objs[1], objs[1], box), slice |-> objs]}
        ELSE IF n = 2 THEN {[node |-> BvhNode(objs[1], objs[2], box), slice |-> objs]}
        ELSE LET midpoint == (n + 1) \div 2
             IN  UNION {
                   {[node |-> BvhNode(l.node, r.node, box), slice |-> l.slice \o r.slice] :
                       l \in from_hittablesCeilSplit(SubSeq(s, 1, midpoint)),
                       r \in from_hittablesCeilSplit(SubSeq(s, midpoint + 1, n))} :
                   s \in SortUnstable(objs, axis)}

\* BvhNode::from_hittables on a slice it returns from: the set of outcomes,
\* each the node built and the slice as the call leaves it
RECURSIVE from_hittables(_)
from_hittables(objs) ==
    LET box == EncloseAll(AabbEMPTY, objs)
        axis == longest_axis(box)
        n == Len(objs)
    IN  IF n = 1 THEN {[node |-> BvhNode(objs[1], objs[1], box), slice |-> objs]}
        ELSE IF n = 2 THEN {[node |-> BvhNode(objs[1], objs[2], box), slice |-> objs]}
        ELSE LET midpoint == n \div 2
             IN  UNION {
                   {[node |-> BvhNode(l.node, r.node, box), slice |-> l.slice \o r.slice] :
                       l \in from_hittables(SubSeq(s, 1, midpoint)),
                       r \in from_hittables(SubSeq(s, midpoint + 1, n))} :
                   s \in SortUnstable(objs, axis)}

\* Hittable::hit, dispatched on the object: Sphere::hit or BvhNode::hit
RECURSIVE Hit(_, _, _)
\* BvhNode::hit
BvhNodeHit(node, r, range) ==
    IF ~AabbHit(node.bbox, r, range) THEN None
    ELSE LET hit_left == Hit(node.left, r, range)
             right_t_max == IF hit_left.some THEN hit_left.t ELSE range.max
             hit_right == Hit(node.right, r, Interval(range.min, right_t_max))
         IN  IF hit_right.some THEN hit_right ELSE hit_left

Hit(obj, r, range) ==
    IF obj.kind = "sphere" THEN SphereHit(obj, r, range) ELSE BvhNodeHit(obj, r, range)

\* HittableList::hit
HittableListHit(objs, r, range) ==
    MinBy(FilterSome([i \in 1..Len(objs) |-> Hit(objs[i], r, range)]))

----------------------------------------------------------------------------
(* Image, SubImage.  The u32 sizes of the images of the model stay far below *)
(* 2^32, so the arithmetic below is the code's arithmetic.                  *)

\* rows_per_stripe + if remainder > 0 { 1 } else { 0 }, without the extra row
\* (a plausible slip: the remainder rows are never given out)
StripeHeightNoExtra(rows_per_stripe, remainder) == rows_per_stripe

\* split_n: stripe_height of one round of the loop
StripeHeight(rows_per_stripe, remainder) ==
    rows_per_stripe + IF remainder > 0 THEN 1 ELSE 0

\* split_at_mut with the rest starting where the current slice starts (a
\* plausible slip in a hand-written split: the views alias)
RestOffsetStuck(lo, byte_count) == lo

\* split_n: `rest` of remaining_pixels.split_at_mut(byte_count) starts right
\* after the current slice
RestOffset(lo, byte_count) == lo + byte_count

\* a SubImage pushed with y_offset 0 (a plausible slip: current_y_offset
\* forgotten)
SubImageNoOffset(width, height, stride, y_offset, lo, len) ==
    [width |-> width, height |-> height, stride |-> stride,
     y_offset |-> 0, lo |-> lo, len |-> len]

\* a SubImage; its pixels slice is bytes [lo, lo + len) of Image.pixels
SubImage(width, height, stride, y_offset, lo, len) ==
    [width |-> width, height |-> height, stride |-> stride,
     y_offset |-> y_offset, lo |-> lo, len |-> len]

\* Image::new: stride
Stride(width) == width * 3

\* Image::new: pixels.len()
BufferLen(width, height) == Stride(width) * height

\* the loop of split_n from round k on: the stripes pushed, or a panic when
\* split_at_mut is asked for more bytes than remain
RECURSIVE SplitLoop(_, _, _, _, _, _, _, _, _, _)
SplitLoop(k, n, width, stride, rows_per_stripe, remainder, current_y_offset, lo, remaining, sub_images) ==
    IF k = n THEN [panic |-> FALSE, sub_images |-> sub_images]
    ELSE LET stripe_height == StripeHeight(rows_per_stripe, remainder)
             byte_count == stripe_height * stride
         IN  IF stripe_height = 0 THEN [panic |-> FALSE, sub_images |-> sub_images]
             ELSE IF byte_count > remaining THEN [panic |-> TRUE, sub_images |-> sub_images]
             ELSE SplitLoop(k + 1, n, width, stride, rows_per_stripe,
                            IF remainder > 0 THEN remainder - 1 ELSE 0,
                            current_y_offset + stripe_height,
                            RestOffset(lo, byte_count),
                            remaining - byte_count,
                            Append(sub_images,
                                   SubImage(width, stripe_height, stride,
                                            current_y_offset, lo, byte_count)))

\* Image::split_n: height / n panics for n = 0
split_n(width, height, n) ==
    IF n = 0 THEN [panic |-> TRUE, sub_images |-> <<>>]
    ELSE SplitLoop(0, n, width, Stride(width), height \div n, height % n,
                   0, 0, BufferLen(width, height), <<>>)

\* SubImage::put_pixel with x not scaled by the 3 bytes of a pixel (a
\* plausible slip)
PutPixelIndexUnscaled(sub, x, y) == y * sub.stride + x

\* SubImage::put_pixel: index of the pixel's first byte in the stripe's slice
PutPixelIndex(sub, x, y) == y * sub.stride + x * 3

\* the state of the render machinery before any render call
RenderIdle ==
    /\ imgW = 0
    /\ imgH = 0
    /\ nWorkers = 0
    /\ spp = 0
    /\ rpc = "idle"
    /\ stripes = <<>>
    /\ workers = <<>>
    /\ writes = <<>>
    /\ sampled = <<>>

----------------------------------------------------------------------------
(* ray_color *)

\* the state of the path integrator outside SpecColor
ColorIdle ==
    /\ rcN = 0
    /\ rcBounces = 0
    /\ rcStack = <<>>
    /\ rcPc = "idle"
    /\ rcValue = BLACK
    /\ hitEvals = 0
    /\ scatterEvals = 0
    /\ rcPath = <<>>
    /\ rcEnd = [why |-> "none", color |-> BLACK]

----------------------------------------------------------------------------
(* Material::scatter *)

\* the steps in which the model draws fastrand::f32() from [0, 1)
DrawSteps == 4

\* Vec3::ZERO
ZERO == vec3(0, 0, 0)

\* Vec3 * f32
VScale(v, k) == vec3(v.x * k, v.y * k, v.z * k)

\* the unit vectors along the axes: the values of Vec3::random_on_sphere()
\* and the surface normals the model draws
UnitVectors ==
    {vec3(1, 0, 0), vec3(-1, 0, 0), vec3(0, 1, 0), vec3(0, -1, 0),
     vec3(0, 0, 1), vec3(0, 0, -1)}

\* Vec3::length
length(v) == ISqrt(length_squared(v))

\* Vec3::normalized
normalized(v) == vec3(Quot(v.x, length(v)), Quot(v.y, length(v)), Quot(v.z, length(v)))

\* Vec3::relative_eq: every component differs by less than 1e-6, which for
\* whole numbers is by nothing
relative_eq(u, v) == Abs(u.x - v.x) = 0 /\ Abs(u.y - v.y) = 0 /\ Abs(u.z - v.z) = 0

\* Vec3::reflect: self - normal * 2.0 * normal.dot(self)
reflect(v, normal) == VSub(v, VScale(VScale(normal, 2), dot(normal, v)))

\* Vec3::refract for eta = etaNum / etaDen: k is held as k * etaDen^2
refract(v, normal, etaNum, etaDen) ==
    LET n_dot_i == dot(v, normal)
        kk == etaDen * etaDen - etaNum * etaNum * (1 - n_dot_i * n_dot_i)
        w == VSub(VScale(v, etaNum), VScale(normal, etaNum * n_dot_i + ISqrt(kk)))
    IN  IF kk >= 0
        THEN vec3(Quot(w.x, etaDen), Quot(w.y, etaDen), Quot(w.z, etaDen))
        ELSE ZERO

\* reflectance(cosine, ior) for ior = etaNum / etaDen, as the fraction num / den
reflectance(cosine, etaNum, etaDen) ==
    LET a == etaDen - etaNum
        b == etaDen + etaNum
        c == 1 - cosine
    IN  [num |-> a * a + (b * b - a * a) * (c * c * c * c * c), den |-> b * b]

\* Some((attenuation, scattered_ray))
SomeScatter(attenuation, scattered_ray) ==
    [some |-> TRUE, attenuation |-> attenuation, ray |-> scattered_ray]

\* the Lambertian arm of Material::scatter
ScatterLambertian(mat, r, hit, rnd) ==
    LET sum == VAdd(hit.normal, rnd)
        scatter_dir == IF relative_eq(sum, ZERO) THEN hit.normal ELSE sum
    IN  SomeScatter(mat.albedo, Ray(hit.point, scatter_dir))

\* the Metalic arm with the scattered ray kept when its direction lies in the
\* surface (a plausible slip: >= for >)
ScatterMetalicNonStrict(mat, r, hit, rnd) ==
    LET reflect_dir == reflect(r.dir, hit.normal)
        fuzzed_dir == VAdd(normalized(reflect_dir), VScale(rnd, mat.fuzz))
    IN  IF dot(fuzzed_dir, hit.normal) >= 0
        THEN SomeScatter(mat.albedo, Ray(hit.point, fuzzed_dir))
        ELSE None

\* the Metalic arm of Material::scatter
ScatterMetalic(mat, r, hit, rnd) ==
    LET reflect_dir == reflect(r.dir, hit.normal)
        fuzzed_dir == VAdd(normalized(reflect_dir), VScale(rnd, mat.fuzz))
    IN  IF dot(fuzzed_dir, hit.normal) > 0
        THEN SomeScatter(mat.albedo, Ray(hit.point, fuzzed_dir))
        ELSE None

\* the Dielectric arm of Material::scatter; draw / DrawSteps is fastrand::f32()
ScatterDielectric(mat, r, hit, draw) ==
    LET etaNum == IF hit.is_front_face THEN 1 ELSE mat.ior
        etaDen == IF hit.is_front_face THEN mat.ior ELSE 1
        ray_dir == normalized(r.dir)
        refracted_dir == refract(ray_dir, hit.normal, etaNum, etaDen)
        cos_theta == FMin(-dot(ray_dir, hit.normal), 1)
        refl == reflectance(cos_theta, etaNum, etaDen)
        dir == IF refracted_dir = ZERO \/ refl.num * DrawSteps > draw * refl.den
               THEN reflect(ray_dir, hit.normal)
               ELSE refracted_dir
    IN  SomeScatter(WHITE, Ray(hit.point, dir))

\* Material::scatter
scatter(mat, r, hit, rnd, draw) ==
    IF mat.kind = "Lambertian" THEN ScatterLambertian(mat, r, hit, rnd)
    ELSE IF mat.kind = "Metalic" THEN ScatterMetalic(mat, r, hit, rnd)
    ELSE ScatterDielectric(mat, r, hit, draw)

\* the materials a hit may carry
Materials ==
    {Lambertian(RED), Lambertian(WHITE), Metalic(GREEN, 0), Metalic(GREEN, 1),
     Metalic(RED, 2), Dielectric(2)}

\* the incoming rays of the scatter calls: along an axis, of length 1 or 2
ScatterRays ==
    {Ray(ZERO, VScale(u, k)) : u \in UnitVectors, k \in 1..2}

\* the hits Sphere::hit can report for a ray on a sphere of a material: the
\* normal is turned against the ray, and lies across it only for a grazing
\* hit, which is not a front face
ScatterHits(r, mat) ==
    {HitRecord(vec3(1, 2, 3), nf[1], TUnit, nf[2], mat) :
        nf \in {nf \in UnitVectors \X BOOLEAN :
                  \/ dot(r.dir, nf[1]) < 0
                  \/ dot(r.dir, nf[1]) = 0 /\ ~nf[2]}}

\* the draws of fastrand::f32()
Draws == 0..(DrawSteps - 1)

\* None of Material::scatter, as an attenuation
NoScatter == <<>>

\* the attenuations Material::scatter may return for a material, NoScatter
\* for None, over the rays, hits and random draws above
ScatterOutcomes ==
    [m \in Materials |->
        UNION {{LET out == scatter(m, r, h, rnd, draw)
                IN  IF out.some THEN out.attenuation ELSE NoScatter :
                   h \in ScatterHits(r, m), rnd \in UnitVectors, draw \in Draws} :
               r \in ScatterRays}]

Scatter(m) == ScatterOutcomes[m]

\* the background of a miss: Color::WHITE * (1.0 - a) + SKY_COLOR * a, for
\* a = 0.5 * (ray_norm_dir.y + 1.0) = a2 / 2
Background(a2) == ColorAdd(ColorScaleHalves(WHITE, 2 - a2), ColorScaleHalves(SKY_COLOR, a2))

\* the values of 2 * a the model draws: the ray points down, level or up
Gradients == {0, 1, 2}

----------------------------------------------------------------------------
(* Sizes of any magnitude.  A u32 or usize value is held as its eight       *)
(* base-256 digits, least significant first, so that the products the code  *)
(* forms are computed exactly, beyond 2^31 too.  usize is 64 bits wide.     *)

\* a byte holds the values below Base
Base == 256

\* the bytes of a u32 and of a usize
U32Digits == 4
UsizeDigits == 8

\* the usize value of a number below 2^31
Wide(x) ==
    [k \in 1..UsizeDigits |->
        IF k = 1 THEN x % Base
        ELSE IF k = 2 THEN (x \div Base) % Base
        ELSE IF k = 3 THEN (x \div (Base * Base)) % Base
        ELSE IF k = 4 THEN x \div (Base * Base * Base)
        ELSE 0]

\* column sums brought back to digits below Base, from digit k on with a
\* carry; what does not fit the usize is dropped
RECURSIVE Normalise(_, _, _)
Normalise(cols, k, carry) ==
    IF k > UsizeDigits THEN <<>>
    ELSE LET v == cols[k] + carry
         IN  <<v % Base>> \o Normalise(cols, k + 1, v \div Base)

\* the sum of the digit products a[i] * b[k + 1 - i] for i..k
RECURSIVE ColumnSum(_, _, _, _)
ColumnSum(a, b, k, i) ==
    IF i > k THEN 0 ELSE a[i] * b[k + 1 - i] + ColumnSum(a, b, k, i + 1)

\* a * b and a + b on usize
WideMul(a, b) == Normalise([k \in 1..UsizeDigits |-> ColumnSum(a, b, k, 1)], 1, 0)
WideAdd(a, b) == Normalise([k \in 1..UsizeDigits |-> a[k] + b[k]], 1, 0)

\* a <= b on usize, decided from digit k down to the first digit that differs
RECURSIVE WideLe(_, _, _)
WideLe(a, b, k) ==
    IF k = 0 THEN TRUE
    ELSE IF a[k] # b[k] THEN a[k] < b[k]
    ELSE WideLe(a, b, k - 1)

\* the value is below 2^32
FitsU32(a) == \A k \in (U32Digits + 1)..UsizeDigits : a[k] = 0

\* `as u32`: the low 32 bits
AsU32(a) == [k \in 1..UsizeDigits |-> IF k <= U32Digits THEN a[k] ELSE 0]

\* u32::is_multiple_of(3): 256 leaves 1 when divided by 3, so a u32 and the
\* sum of its four digits leave the same
IsMultipleOf3(a) == (a[1] + a[2] + a[3] + a[4]) % 3 = 0

\* the call was not made yet
NotCalled == [kind |-> "pending"]

\* a panic of the size computation
SizePanic == [kind |-> "panic"]

\* vec! could not get the memory: the process is aborted
AllocFailed == [kind |-> "alloc_failed"]

\* a * b on u32: in a build with overflow checks a product of 2^32 or more
\* panics, in a build without it wraps
MulU32(a, b, checks) ==
    LET p == WideMul(a, b)
    IN  IF FitsU32(p) THEN [kind |-> "value", v |-> p]
        ELSE IF checks THEN SizePanic
        ELSE [kind |-> "value", v |-> AsU32(p)]

\* Image::new: the stride and the length of the pixel buffer
ImageSizes(width, height, checks) ==
    LET stride == MulU32(Wide(width), Wide(3), checks)
    IN  IF stride = SizePanic THEN SizePanic
        ELSE [kind |-> "image", width |-> width, height |-> height,
              stride |-> stride.v, len |-> WideMul(stride.v, Wide(height))]

\* the loop of Image::split_n on sizes of any magnitude: `taken` is the number
\* of bytes split off so far, split_at_mut panics when asked for more bytes
\* than remain
RECURSIVE SplitSizesLoop(_, _, _, _, _, _, _, _)
SplitSizesLoop(img, checks, rounds, rows_per_stripe, remainder, current_y_offset, taken, sub_images) ==
    LET stripe_height == rows_per_stripe + (IF remainder > 0 THEN 1 ELSE 0)
        byte_count == MulU32(Wide(stripe_height), img.stride, checks)
    IN  IF rounds = 0 \/ stripe_height = 0 THEN [kind |-> "stripes", stripes |-> sub_images]
        ELSE IF byte_count = SizePanic THEN SizePanic
        ELSE IF ~WideLe(WideAdd(taken, byte_count.v), img.len, UsizeDigits) THEN SizePanic
        ELSE SplitSizesLoop(img, checks, rounds - 1, rows_per_stripe,
                            IF remainder > 0 THEN remainder - 1 ELSE 0,
                            current_y_offset + stripe_height,
                            WideAdd(taken, byte_count.v),
                            Append(sub_images, [height |-> stripe_height,
                                                y_offset |-> current_y_offset,
                                                bytes |-> byte_count.v]))

\* Image::split_n on sizes of any magnitude; n = 0 divides by zero
SplitSizes(img, n, checks) ==
    IF n = 0 THEN SizePanic
    ELSE SplitSizesLoop(img, checks, n, img.height \div n, img.height % n, 0, Wide(0), <<>>)

\* ppm::write on the pixels of the Image, up to its two assertions
PpmWrite(img, checks) ==
    LET len == AsU32(img.len)
        wh == MulU32(Wide(img.width), Wide(img.height), checks)
        wh3 == MulU32(wh.v, Wide(3), checks)
    IN  IF ~IsMultipleOf3(len) THEN SizePanic
        ELSE IF wh = SizePanic THEN SizePanic
        ELSE IF wh3 = SizePanic THEN SizePanic
        ELSE IF len # wh3.v THEN SizePanic
        ELSE [kind |-> "written"]

----------------------------------------------------------------------------
(* The scene: building a list, compiling it into a BVH, querying both *)

Pending == [some |-> FALSE, pending |-> TRUE]

\* the state of the scatter call outside SpecScatter
ScatterIdle ==
    /\ scMaterial = Lambertian(WHITE)
    /\ scRay = Ray(ZERO, vec3(1, 0, 0))
    /\ scHit = Pending
    /\ scRnd = ZERO
    /\ scDraw = 0
    /\ scOut = Pending

\* the state of the Interval and Aabb operands outside SpecMath
MathIdle ==
    /\ ivA = IntervalEMPTY
    /\ ivB = IntervalEMPTY
    /\ ivC = IntervalEMPTY
    /\ boxA = AabbEMPTY
    /\ boxB = AabbEMPTY
    /\ mathOut = Pending

\* the state of the size computations outside SpecSize
SizeIdle ==
    /\ szWidth = 0
    /\ szHeight = 0
    /\ szN = 0
    /\ szChecks = FALSE
    /\ szImage = NotCalled
    /\ szSplit = NotCalled
    /\ szWrite = NotCalled

\* the state of the pure operations outside their specifications
PureIdle == ScatterIdle /\ MathIdle /\ SizeIdle

\* a scene is built by add calls, then compiled, then only queried
InitHit ==
    /\ objects = <<>>
    /\ bbox = AabbEMPTY
    /\ bvh = NoBvh
    /\ ray \in Rays
    /\ t_range \in Ranges
    /\ listHit = Pending
    /\ bvhHit = Pending
    /\ sphereHit = Pending
    /\ added = <<>>
    /\ RenderIdle
    /\ ColorIdle
    /\ PureIdle

\* HittableList::add with the box of the new object replacing the list's box (a
\* plausible slip: the enclose forgotten)
AddReplacesBox(object) ==
    /\ Len(objects) < MaxObjects
    /\ bvh = NoBvh
    /\ bbox' = SphereBoundingBox(object)
    /\ objects' = Append(objects, object)
    /\ listHit' = Pending
    /\ added' = Append(added, object)
    /\ UNCHANGED <<bvh, ray, t_range, bvhHit, sphereHit, renderVars, colorVars, pureVars>>

\* HittableList::add
Add(object) ==
    /\ Len(objects) < MaxObjects
    /\ bvh = NoBvh
    /\ bbox' = AabbEnclose(bbox, SphereBoundingBox(object))
    /\ objects' = Append(objects, object)
    /\ listHit' = Pending
    /\ added' = Append(added, object)
    /\ UNCHANGED <<bvh, ray, t_range, bvhHit, sphereHit, renderVars, colorVars, pureVars>>

\* BvhNode::new taking the objects out of the list (a plausible slip: the
\* build given the Vec by value, the list left empty)
BvhNewTakesObjects ==
    /\ bvh = NoBvh
    /\ IF Overflows(Len(objects), 1)
       THEN /\ bvh' = StackOverflow
            /\ objects' = objects
       ELSE \E out \in from_hittables(objects) :
               /\ bvh' = out.node
               /\ objects' = <<>>
    /\ UNCHANGED <<bbox, ray, t_range, listHit, bvhHit, sphereHit, added, renderVars, colorVars, pureVars>>

\* BvhNode::new(&mut list): the build returns a node and leaves the slice
\* reordered, or never returns because the recursion exhausts the stack
BvhNew ==
    /\ bvh = NoBvh
    /\ IF Overflows(Len(objects), 1)
       THEN /\ bvh' = StackOverflow
            /\ objects' = objects
       ELSE \E out \in from_hittables(objects) :
               /\ bvh' = out.node
               /\ objects' = out.slice
    /\ UNCHANGED <<bbox, ray, t_range, listHit, bvhHit, sphereHit, added, renderVars, colorVars, pureVars>>

\* list.hit(&ray, t_range)
ListHitCall ==
    /\ bvh # StackOverflow
    /\ listHit' = HittableListHit(objects, ray, t_range)
    /\ UNCHANGED <<objects, bbox, bvh, ray, t_range, bvhHit, sphereHit, added, renderVars, colorVars, pureVars>>

\* bvh.hit(&ray, t_range)
BvhHitCall ==
    /\ bvh.kind = "bvh"
    /\ bvhHit' = Hit(bvh, ray, t_range)
    /\ UNCHANGED <<objects, bbox, bvh, ray, t_range, listHit, sphereHit, added, renderVars, colorVars, pureVars>>

\* sphere.hit(&ray, t_range) on a sphere of the scene
SphereHitCall(i) ==
    /\ bvh # StackOverflow
    /\ sphereHit' = [of |-> objects[i], hit |-> SphereHit(objects[i], ray, t_range)]
    /\ UNCHANGED <<objects, bbox, bvh, ray, t_range, listHit, bvhHit, added, renderVars, colorVars, pureVars>>

NextHit ==
    \/ \E object \in Spheres : Add(object)
    \/ BvhNew
    \/ ListHitCall
    \/ BvhHitCall
    \/ \E i \in 1..Len(objects) : SphereHitCall(i)

SpecHit == InitHit /\ [][NextHit]_vars

----------------------------------------------------------------------------
(* A render call: Camera::render_to / MtRenderer::render *)

\* the largest image and worker count of the model
MaxWidth == 2
MaxHeight == 4
MaxWorkers == 3
MaxSamples == 1

\* the state of the scene machinery outside SpecHit
HitIdle ==
    /\ objects = <<>>
    /\ bbox = AabbEMPTY
    /\ bvh = NoBvh
    /\ ray = Ray(vec3(0, 0, 0), vec3(1, 0, 0))
    /\ t_range = Interval(0, PosInf)
    /\ listHit = Pending
    /\ bvhHit = Pending
    /\ sphereHit = Pending
    /\ added = <<>>

\* the pixels of the image, as (x, y)
Pixels == (0..(imgW - 1)) \X (0..(imgH - 1))

\* Image::new(width, height), a camera with samples_per_pixel, and a render
\* call about to start with worker count n
InitRender ==
    /\ imgW \in 0..MaxWidth
    /\ imgH \in 0..MaxHeight
    /\ nWorkers \in 0..MaxWorkers
    /\ spp \in 0..MaxSamples
    /\ rpc = "start"
    /\ stripes = <<>>
    /\ workers = <<>>
    /\ writes = [b \in 0..(BufferLen(imgW, imgH) - 1) |-> <<>>]
    /\ sampled = [p \in Pixels |-> 0]
    /\ HitIdle
    /\ ColorIdle
    /\ PureIdle

\* image.split_n(n), evaluated once before the for loop starts
SplitCall ==
    /\ rpc = "start"
    /\ LET out == split_n(imgW, imgH, nWorkers)
       IN  IF out.panic
           THEN rpc' = "panicked" /\ UNCHANGED stripes
           ELSE rpc' = "spawning" /\ stripes' = out.sub_images
    /\ UNCHANGED <<imgW, imgH, nWorkers, spp, workers, writes, sampled, hitVars, colorVars, pureVars>>

\* one round of `for mut sub_image in ...`: s.spawn(move || ...) hands the
\* next stripe to a new worker
Spawn ==
    /\ rpc = "spawning"
    /\ Len(workers) < Len(stripes)
    /\ workers' = Append(workers,
                         [sub_image |-> stripes[Len(workers) + 1],
                          x |-> 0, y |-> 0, pc |-> "running"])
    /\ UNCHANGED <<imgW, imgH, nWorkers, spp, rpc, stripes, writes, sampled, hitVars, colorVars, pureVars>>

\* the bytes put_pixel writes: index, index + 1, index + 2 of the stripe's slice
PixelBytes(sub, x, y) ==
    {sub.lo + PutPixelIndex(sub, x, y) + j : j \in 0..2}

\* one round of the worker's pixel loop: samples_per_pixel rays for the pixel
\* (x, y_offset + y), then sub_image.put_pixel(x, y, color); the worker is
\* finished when the loops are exhausted.  A ray_color call that panics ends
\* the thread before the pixel is put.  put_pixel stores its three bytes one
\* by one, each bounds-checked against the stripe's slice: the bytes before
\* the first index outside the slice are written, then the thread panics
WorkerStep(i) ==
    /\ i \in 1..Len(workers)
    /\ workers[i].pc = "running"
    /\ LET w == workers[i]
           sub == w.sub_image
           index == PutPixelIndex(sub, w.x, w.y)
       IN  IF w.y >= sub.height \/ sub.width = 0
           THEN /\ workers' = [workers EXCEPT ![i].pc = "finished"]
                /\ UNCHANGED <<writes, sampled>>
           ELSE \/ \E k \in 1..spp :
                     /\ workers' = [workers EXCEPT ![i].pc = "panicked"]
                     /\ sampled' = [sampled EXCEPT ![<<w.x, sub.y_offset + w.y>>] = @ + k]
                     /\ UNCHANGED writes
                \/ /\ writes' = [b \in DOMAIN writes |->
                                    IF b \in PixelBytes(sub, w.x, w.y) /\ b - sub.lo < sub.len
                                    THEN Append(writes[b], i) ELSE writes[b]]
                   /\ sampled' = [sampled EXCEPT ![<<w.x, sub.y_offset + w.y>>] = @ + spp]
                   /\ workers' = IF index + 2 >= sub.len
                                 THEN [workers EXCEPT ![i].pc = "panicked"]
                                 ELSE [workers EXCEPT
                                         ![i].x = IF w.x + 1 < sub.width THEN w.x + 1 ELSE 0,
                                         ![i].y = IF w.x + 1 < sub.width THEN w.y ELSE w.y + 1]
    /\ UNCHANGED <<imgW, imgH, nWorkers, spp, rpc, stripes, hitVars, colorVars, pureVars>>

\* std::thread::scope returning although workers still run (fire and forget)
JoinScopeNoWait ==
    /\ rpc = "spawning"
    /\ Len(workers) = Len(stripes)
    /\ rpc' = "returned"
    /\ UNCHANGED <<imgW, imgH, nWorkers, spp, stripes, workers, writes, sampled, hitVars, colorVars, pureVars>>

\* the end of std::thread::scope: it returns once the loop has spawned every
\* stripe and every spawned thread has ended, and panics if one panicked
JoinScope ==
    /\ rpc = "spawning"
    /\ Len(workers) = Len(stripes)
    /\ \A i \in 1..Len(workers) : workers[i].pc # "running"
    /\ rpc' = IF \E i \in 1..Len(workers) : workers[i].pc = "panicked"
              THEN "panicked" ELSE "returned"
    /\ UNCHANGED <<imgW, imgH, nWorkers, spp, stripes, workers, writes, sampled, hitVars, colorVars, pureVars>>

NextRender ==
    \/ SplitCall
    \/ Spawn
    \/ \E i \in 1..MaxWorkers : WorkerStep(i)
    \/ JoinScope

SpecRender == InitRender /\ [][NextRender]_vars

----------------------------------------------------------------------------
(* The input domain is exact: what the integer arithmetic above needs *)

\* Sphere::hit's discriminant h*h - a*c
Discriminant(s, r) ==
    LET oc == VSub(s.center, r.origin)
        a == length_squared(r.dir)
        h == dot(r.dir, oc)
        c == length_squared(oc) - s.radius * s.radius
    IN  h * h - a * c

Divides(d, n) == d # 0 /\ n % Abs(d) = 0

\* every square root, quotient and normal the code forms on Spheres x Rays is
\* a whole number of model units, and every interval bound is one too
ExactDomain ==
    /\ \A r \in Rays : length_squared(r.dir) > 0
    /\ \A s \in Spheres, r \in Rays :
          LET disc == Discriminant(s, r)
              a == length_squared(r.dir)
              h == dot(r.dir, VSub(s.center, r.origin))
              b == SphereBoundingBox(s)
          IN  /\ disc >= 0 =>
                   /\ ISqrt(disc) * ISqrt(disc) = disc
                   /\ Divides(a, TUnit * (h - ISqrt(disc)))
                   /\ Divides(a, TUnit * (h + ISqrt(disc)))
                   /\ \A t \in {RootT(h - ISqrt(disc), a), RootT(h + ISqrt(disc), a)} :
                         /\ Divides(TUnit, r.dir.x * t)
                         /\ Divides(TUnit, r.dir.y * t)
                         /\ Divides(TUnit, r.dir.z * t)
                         /\ LET d == VSub(at(r, t), s.center)
                            IN  /\ Divides(s.radius, d.x)
                                /\ Divides(s.radius, d.y)
                                /\ Divides(s.radius, d.z)
                                /\ length_squared(d) = s.radius * s.radius
              /\ r.dir.x # 0 => Divides(r.dir.x, TUnit * (b.x_axis.min - r.origin.x))
                                /\ Divides(r.dir.x, TUnit * (b.x_axis.max - r.origin.x))
              /\ r.dir.y # 0 => Divides(r.dir.y, TUnit * (b.y_axis.min - r.origin.y))
                                /\ Divides(r.dir.y, TUnit * (b.y_axis.max - r.origin.y))
              /\ r.dir.z # 0 => Divides(r.dir.z, TUnit * (b.z_axis.min - r.origin.z))
                                /\ Divides(r.dir.z, TUnit * (b.z_axis.max - r.origin.z))

----------------------------------------------------------------------------
(* Claims about the intersection engine, under SpecHit *)

IsPending(h) == h = Pending

\* min <= t <= max, for a t that is a number
InInterval(range, t) == range.min <= t /\ t <= range.max

\* both queries were made on the compiled scene
BothQueried == bvh.kind = "bvh" /\ ~IsPending(listHit) /\ ~IsPending(bvhHit)

\* the hits the primitives of the list report one by one for ray and t_range
PrimitiveTs ==
    {SphereHit(objects[i], ray, t_range).t :
        i \in {j \in 1..Len(objects) : SphereHit(objects[j], ray, t_range).some}}

\* h is the nearest intersection of the primitives: nothing iff none of them
\* reports a hit, else a hit at the least t they report
Nearest(h) ==
    /\ h.some <=> PrimitiveTs # {}
    /\ h.some => h.t \in PrimitiveTs /\ \A t \in PrimitiveTs : h.t <= t

\* C1: BvhNode::new(list).hit and HittableList.hit over the same spheres, ray and
\* interval either both return nothing or both return a hit with the same t and
\* the same material.
C1_BvhEqualsList ==
    BothQueried =>
        /\ bvhHit.some = listHit.some
        /\ bvhHit.some => bvhHit.t = listHit.t /\ bvhHit.material = listHit.material

\* C6: HittableList.hit and BvhNode.hit both return the nearest intersection:
\* nothing iff no primitive reports a hit for the ray and interval, else the
\* minimum of the t values the primitives report.
C6_BothNearest ==
    /\ ~IsPending(listHit) => Nearest(listHit)
    /\ (bvh.kind = "bvh" /\ ~IsPending(bvhHit)) => Nearest(bvhHit)

\* the HittableList half of C6, which the code satisfies
ListNearest == ~IsPending(listHit) => Nearest(listHit)

\* every hit reported inside the tree lies in the interval its node was
\* queried with: the node itself, its left child under the same interval and
\* its right child under the interval shrunk to the left hit
RECURSIVE HitsInside(_, _, _)
HitsInside(obj, r, range) ==
    LET h == Hit(obj, r, range)
    IN  /\ h.some => InInterval(range, h.t)
        /\ (obj.kind = "bvh" /\ AabbHit(obj.bbox, r, range)) =>
              LET hit_left == Hit(obj.left, r, range)
                  right_t_max == IF hit_left.some THEN hit_left.t ELSE range.max
              IN  /\ HitsInside(obj.left, r, range)
                  /\ HitsInside(obj.right, r, Interval(range.min, right_t_max))

\* C7: every HitRecord returned by Sphere.hit, HittableList.hit or BvhNode.hit
\* for the interval [min, max] has min <= t <= max, at any depth of a BVH tree.
C7_HitInsideInterval ==
    /\ (~IsPending(sphereHit) /\ sphereHit.hit.some) => InInterval(t_range, sphereHit.hit.t)
    /\ listHit.some => InInterval(t_range, listHit.t)
    /\ bvhHit.some => InInterval(t_range, bvhHit.t)
    /\ bvh.kind = "bvh" => HitsInside(bvh, ray, t_range)

\* a three-object tree returned a hit whose t is the upper bound of the interval
C7_Witness ==
    /\ Len(objects) = 3
    /\ bvhHit.some /\ bvhHit.t = t_range.max
    /\ listHit.some
    /\ ~IsPending(sphereHit) /\ sphereHit.hit.some

\* the bound of the ray parameters searched for roots, in units of 1/TUnit
MaxT == 40

\* t (in units of 1/TUnit) is a root of |o + t d - c|^2 = r^2
OnSphere(s, r, t) ==
    LET p == vec3(TUnit * (r.origin.x - s.center.x) + r.dir.x * t,
                  TUnit * (r.origin.y - s.center.y) + r.dir.y * t,
                  TUnit * (r.origin.z - s.center.z) + r.dir.z * t)
    IN  length_squared(p) = TUnit * TUnit * s.radius * s.radius

Roots(s, r) == {t \in (-MaxT)..MaxT : OnSphere(s, r, t)}

SetMin(S) == CHOOSE x \in S : \A y \in S : x <= y
SetMax(S) == CHOOSE x \in S : \A y \in S : y <= x

\* C8: Sphere.hit returns nothing on a negative discriminant; otherwise, with
\* roots t1 <= t2, it reports t1 if t1 lies in the closed interval, else t2 if
\* t2 lies in it, else nothing.
C8_SphereRootSelection ==
    ~IsPending(sphereHit) =>
        LET s == sphereHit.of
            h == sphereHit.hit
            roots == Roots(s, ray)
        IN  /\ Discriminant(s, ray) < 0 <=> roots = {}
            /\ IF roots = {} THEN ~h.some
               ELSE LET t1 == SetMin(roots)
                        t2 == SetMax(roots)
                    IN  IF InInterval(t_range, t1) THEN h.some /\ h.t = t1
                        ELSE IF InInterval(t_range, t2) THEN h.some /\ h.t = t2
                        ELSE ~h.some
            /\ h.some => h.point = at(ray, h.t) /\ h.material = s.material

\* Sphere.hit reported the larger root because the smaller one lies outside
C8_Witness ==
    /\ ~IsPending(sphereHit)
    /\ sphereHit.hit.some
    /\ Cardinality(Roots(sphereHit.of, ray)) = 2
    /\ sphereHit.hit.t = SetMax(Roots(sphereHit.of, ray))

----------------------------------------------------------------------------
(* Claims about the striped render, under SpecRender *)

\* the rows [y_offset, y_offset + height) of a stripe
Rows(sub) == sub.y_offset..(sub.y_offset + sub.height - 1)

\* the bytes of the rows of a stripe in the image buffer
RowBytes(sub) == (sub.y_offset * 3 * imgW)..((sub.y_offset + sub.height) * 3 * imgW - 1)

\* C2: for height H >= 1 and worker count N with 1 <= N <= H the stripes
\* split_n(N) returns have pairwise disjoint row ranges whose union is exactly
\* [0, H) and whose heights differ by at most one row.
C2_RowPartition ==
    (rpc # "start" /\ imgH >= 1 /\ 1 <= nWorkers /\ nWorkers <= imgH) =>
        /\ Len(stripes) = nWorkers
        /\ \A i, j \in 1..Len(stripes) :
              i # j => Rows(stripes[i]) \cap Rows(stripes[j]) = {}
        /\ UNION {Rows(stripes[i]) : i \in 1..Len(stripes)} = 0..(imgH - 1)
        /\ \A i, j \in 1..Len(stripes) : stripes[i].height - stripes[j].height <= 1

\* split_n returned stripes of unequal height
C2_Witness ==
    /\ rpc = "spawning"
    /\ nWorkers = 3 /\ imgH = 4
    /\ Len(stripes) = 3
    /\ stripes[1].height # stripes[3].height

\* C3: every stripe is handed to exactly one worker; under every interleaving
\* no byte of the pixel buffer is written by two different workers and no
\* worker writes a byte outside the byte range of its own stripe; and all
\* stripe views are established before any worker starts.
C3_ExclusiveStripes ==
    /\ Len(workers) <= Len(stripes)
    /\ \A i \in 1..Len(workers) : workers[i].sub_image = stripes[i]
    /\ \A i, j \in 1..Len(stripes) : i # j => stripes[i] # stripes[j]
    /\ rpc = "returned" => Len(workers) = Len(stripes)
    /\ \A b \in DOMAIN writes : \A k, l \in 1..Len(writes[b]) : writes[b][k] = writes[b][l]
    /\ \A b \in DOMAIN writes : \A k \in 1..Len(writes[b]) :
          b \in RowBytes(stripes[writes[b][k]])
    /\ Len(workers) > 0 =>
          /\ rpc # "start"
          /\ UNION {Rows(stripes[i]) : i \in 1..Len(stripes)} = 0..(imgH - 1)

\* two workers have both written while the render call is still under way
C3_Witness ==
    /\ rpc = "spawning"
    /\ \E b1, b2 \in DOMAIN writes :
          /\ Len(writes[b1]) > 0 /\ writes[b1][1] = 1
          /\ Len(writes[b2]) > 0 /\ writes[b2][1] = 2
    /\ \E i \in 1..Len(workers) : workers[i].pc = "running"

\* C4: a render call returns only after every stripe worker it spawned has
\* finished: once it has returned no worker is still running, every stripe has
\* a worker and every byte of every stripe has been written.
C4_ForkJoin ==
    rpc = "returned" =>
        /\ Len(workers) = Len(stripes)
        /\ \A i \in 1..Len(workers) : workers[i].pc = "finished"
        /\ \A i \in 1..Len(stripes) :
              \A b \in stripes[i].lo..(stripes[i].lo + stripes[i].len - 1) :
                  Len(writes[b]) >= 1

\* a render call with several workers on a non-empty image has returned
C4_Witness ==
    /\ rpc = "returned"
    /\ Len(workers) >= 2
    /\ imgW >= 1

\* Image::put_pixel: index of the first byte of pixel (x, y) in Image.pixels
ImagePixelIndex(x, y) == y * Stride(imgW) + x * 3

\* the render call has ended: it returned, or it aborted on a panic
RenderEnded == rpc \in {"returned", "panicked"}

\* all three bytes of every pixel of the image were written exactly once
EveryPixelOnce ==
    \A p \in Pixels : \A j \in 0..2 :
        Len(writes[ImagePixelIndex(p[1], p[2]) + j]) = 1

\* C5: in one render call every pixel (x, y) of the image is written exactly
\* once, for every worker count and every interleaving of the workers: never
\* twice while the call runs, and exactly once when the call has ended.
C5_EachPixelOnce ==
    /\ \A b \in DOMAIN writes : Len(writes[b]) <= 1
    /\ RenderEnded => EveryPixelOnce

\* a worker panicked in ray_color: before a byte of its pixel was stored
RayColorPanicked ==
    \E i \in 1..Len(workers) :
        /\ workers[i].pc = "panicked"
        /\ \A b \in PixelBytes(workers[i].sub_image, workers[i].x, workers[i].y) :
              writes[b] = <<>>

\* what the code does guarantee: no byte is written twice, and a render call
\* that returns has written every pixel exactly once; a call with a worker
\* count of at least 1 aborts only when a ray_color call panics
EachPixelOnceWhenReturned ==
    /\ \A b \in DOMAIN writes : Len(writes[b]) <= 1
    /\ rpc = "returned" => EveryPixelOnce
    /\ rpc = "panicked" => (nWorkers = 0 \/ RayColorPanicked)

\* a render call over an image of several rows and columns has returned
ReturnedAllWritten ==
    /\ rpc = "returned"
    /\ imgW >= 2 /\ imgH >= 2
    /\ Len(workers) >= 2
    /\ \A b \in DOMAIN writes : Len(writes[b]) = 1

----------------------------------------------------------------------------
(* The path integrator: ray_color(ray, world, bounces) *)

\* the largest bounces argument of the model
MaxBounces == 3

\* a ray_color(ray, world, n) call about to run
InitColor ==
    /\ rcN \in 0..MaxBounces
    /\ rcBounces = rcN
    /\ rcStack = <<>>
    /\ rcPc = "call"
    /\ rcValue = BLACK
    /\ hitEvals = 0
    /\ scatterEvals = 0
    /\ rcPath = <<>>
    /\ rcEnd = [why |-> "none", color |-> BLACK]
    /\ HitIdle
    /\ RenderIdle
    /\ PureIdle

\* `if bounces == 0` with the test off by one (a plausible slip)
BouncesExhaustedLate(bounces) == bounces = 1

\* `if bounces == 0`
BouncesExhausted(bounces) == bounces = 0

\* the recursive call made with `bounces` itself (a plausible slip: the
\* budget is never spent)
NextBouncesSame(bounces) == bounces

\* `bounces - 1`, the argument of the recursive call
NextBounces(bounces) == bounces - 1

\* bounces == 0: return Color::BLACK, before anything is evaluated
RayColorExhausted ==
    /\ rcPc = "call"
    /\ BouncesExhausted(rcBounces)
    /\ rcValue' = BLACK
    /\ rcPc' = "return"
    /\ rcEnd' = [why |-> "bounces", color |-> BLACK]
    /\ UNCHANGED <<rcN, rcBounces, rcStack, hitEvals, scatterEvals, rcPath, hitVars, renderVars, pureVars>>

\* ray.hit(world, ..) is None: return the background gradient
RayColorMiss(a2) ==
    /\ rcPc = "call"
    /\ ~BouncesExhausted(rcBounces)
    /\ hitEvals' = hitEvals + 1
    /\ rcValue' = Background(a2)
    /\ rcPc' = "return"
    /\ rcEnd' = [why |-> "miss", color |-> Background(a2)]
    /\ UNCHANGED <<rcN, rcBounces, rcStack, scatterEvals, rcPath, hitVars, renderVars, pureVars>>

\* a hit whose material.scatter is None: return Color::BLACK
RayColorAbsorbed(m) ==
    /\ rcPc = "call"
    /\ ~BouncesExhausted(rcBounces)
    /\ NoScatter \in Scatter(m)
    /\ hitEvals' = hitEvals + 1
    /\ scatterEvals' = scatterEvals + 1
    /\ rcValue' = BLACK
    /\ rcPc' = "return"
    /\ rcEnd' = [why |-> "absorbed", color |-> BLACK]
    /\ UNCHANGED <<rcN, rcBounces, rcStack, rcPath, hitVars, renderVars, pureVars>>

\* a hit whose material.scatter is Some((attenuation, scattered_ray)): the
\* recursive call ray_color(scattered_ray, world, bounces - 1) starts, and the
\* caller waits to multiply its result by attenuation
RayColorScatter(m, attenuation) ==
    /\ rcPc = "call"
    /\ ~BouncesExhausted(rcBounces)
    /\ attenuation \in Scatter(m) \ {NoScatter}
    /\ hitEvals' = hitEvals + 1
    /\ scatterEvals' = scatterEvals + 1
    /\ rcStack' = Append(rcStack, attenuation)
    /\ rcPath' = Append(rcPath, attenuation)
    /\ rcBounces' = NextBounces(rcBounces)
    /\ UNCHANGED <<rcN, rcPc, rcValue, rcEnd, hitVars, renderVars, pureVars>>

\* the innermost call has returned rcValue: its caller returns
\* rcValue * attenuation, and the outermost call's return ends the run
RayColorReturn ==
    /\ rcPc = "return"
    /\ IF rcStack = <<>>
       THEN rcPc' = "done" /\ UNCHANGED <<rcValue, rcStack>>
       ELSE /\ rcValue' = ColorMul(rcValue, rcStack[Len(rcStack)])
            /\ rcStack' = SubSeq(rcStack, 1, Len(rcStack) - 1)
            /\ UNCHANGED rcPc
    /\ UNCHANGED <<rcN, rcBounces, hitEvals, scatterEvals, rcPath, rcEnd, hitVars, renderVars, pureVars>>

NextColor ==
    \/ RayColorExhausted
    \/ \E a2 \in Gradients : RayColorMiss(a2)
    \/ \E m \in Materials : RayColorAbsorbed(m)
    \/ \E m \in Materials : \E attenuation \in Scatter(m) : RayColorScatter(m, attenuation)
    \/ RayColorReturn

SpecColor == InitColor /\ [][NextColor]_vars

\* a running call runs on: ray_color is sequential code
SpecColorFair == SpecColor /\ WF_vars(NextColor)

----------------------------------------------------------------------------
(* Claims about ray_color, under SpecColor and SpecColorFair *)

\* C9: ray_color called with bounces = 0 returns black immediately, without
\* evaluating scene.hit and without calling material.scatter: for the outermost
\* call, and for a recursive call that receives 0, which adds no evaluation to
\* those of its callers.
C9_ZeroBouncesBlack ==
    /\ rcN = 0 =>
          /\ hitEvals = 0
          /\ scatterEvals = 0
          /\ rcPc \in {"return", "done"} => rcValue = BLACK /\ rcEnd.why = "bounces"
    /\ rcEnd.why = "bounces" =>
          /\ rcEnd.color = BLACK
          /\ hitEvals = Len(rcPath)
          /\ scatterEvals = Len(rcPath)

\* ray_color(ray, world, 0) has returned
C9_Witness == rcN = 0 /\ rcPc = "done" /\ rcValue = BLACK

\* the product of component c of the attenuations of a path
RECURSIVE PathProduct(_, _)
PathProduct(path, c) ==
    IF path = <<>> THEN 1 ELSE path[1][c] * PathProduct(Tail(path), c)

RECURSIVE Power(_, _)
Power(b, k) == IF k = 0 THEN 1 ELSE b * Power(b, k - 1)

\* what holds of ray_color(ray, world, n) in every state of a run
C10_Safety ==
    /\ hitEvals <= rcN
    /\ rcPc = "call" => rcBounces = rcN - Len(rcStack)
    /\ Len(rcPath) <= rcN
    /\ hitEvals = Len(rcPath) + (IF rcEnd.why \in {"miss", "absorbed"} THEN 1 ELSE 0)
    /\ rcEnd.why = "bounces" => Len(rcPath) = rcN /\ rcEnd.color = BLACK
    /\ rcEnd.why = "absorbed" => rcEnd.color = BLACK
    /\ rcEnd.why = "miss" =>
          \E a2 \in Gradients : rcEnd.color = <<20 - 5 * a2, 20 - 3 * a2, 20>>
    /\ rcPc = "done" =>
          /\ rcEnd.why \in {"bounces", "miss", "absorbed"}
          /\ \A c \in 1..3 :
                rcValue[c] * Power(One, Len(rcPath)) = rcEnd.color[c] * PathProduct(rcPath, c)

\* C10: ray_color(ray, scene, n) always terminates and evaluates scene.hit at
\* most n times: each recursive call is made with bounces decreased by exactly
\* 1, the recursion stops at the first of a miss (background gradient), an
\* absorbing hit (black) and bounces reaching 0 (black), and otherwise the
\* result is the attenuation multiplied component-wise with the recursive result.
C10_TerminatesBounded == []C10_Safety /\ <>(rcPc = "done")

\* a path of two scatterings ended in a miss, and the attenuations changed
\* the background
C10_Witness ==
    /\ rcPc = "done"
    /\ Len(rcPath) >= 2
    /\ rcEnd.why = "miss"
    /\ rcValue # BLACK
    /\ rcValue # rcEnd.color

----------------------------------------------------------------------------
(* Claims about bounding boxes, under SpecHit *)

\* the smallest box around a non-empty set of spheres, from their centres and radii
Hull(S) ==
    [x_axis |-> [min |-> SetMin({o.center.x - o.radius : o \in S}),
                 max |-> SetMax({o.center.x + o.radius : o \in S})],
     y_axis |-> [min |-> SetMin({o.center.y - o.radius : o \in S}),
                 max |-> SetMax({o.center.y + o.radius : o \in S})],
     z_axis |-> [min |-> SetMin({o.center.z - o.radius : o \in S}),
                 max |-> SetMax({o.center.z + o.radius : o \in S})]]

\* the primitives in the subtree of a Hittable
RECURSIVE SubtreeLeaves(_)
SubtreeLeaves(obj) ==
    IF obj.kind = "sphere" THEN {obj}
    ELSE SubtreeLeaves(obj.left) \cup SubtreeLeaves(obj.right)

\* box `outer` contains box `inner`
BoxEncloses(outer, inner) ==
    /\ outer.x_axis.min <= inner.x_axis.min /\ inner.x_axis.max <= outer.x_axis.max
    /\ outer.y_axis.min <= inner.y_axis.min /\ inner.y_axis.max <= outer.y_axis.max
    /\ outer.z_axis.min <= inner.z_axis.min /\ inner.z_axis.max <= outer.z_axis.max

\* the box of a child: bounding_box() of the BvhNode or of the Sphere
ChildBox(obj) == IF obj.kind = "sphere" THEN Hull({obj}) ELSE obj.bbox

\* node.bbox is the hull of the subtree and encloses both children, at this
\* node and at every node below it
RECURSIVE BoxesTight(_)
BoxesTight(obj) ==
    obj.kind = "bvh" =>
        /\ obj.bbox = Hull(SubtreeLeaves(obj))
        /\ BoxEncloses(obj.bbox, ChildBox(obj.left))
        /\ BoxEncloses(obj.bbox, ChildBox(obj.right))
        /\ BoxesTight(obj.left)
        /\ BoxesTight(obj.right)

\* C12: for every BvhNode produced by BvhNode::from_hittables, at every depth
\* of the tree, node.bbox equals the enclose of the bounding boxes of all
\* primitives in the node's subtree, hence encloses the boxes of both children.
C12_BvhBoxesTight ==
    bvh.kind = "bvh" =>
        /\ BoxesTight(bvh)
        /\ SubtreeLeaves(bvh) = {added[i] : i \in 1..Len(added)}

\* a tree of depth two whose children have boxes smaller than the root's
C12_Witness ==
    /\ bvh.kind = "bvh"
    /\ bvh.left.kind = "bvh"
    /\ bvh.right.kind = "bvh"
    /\ bvh.left.bbox # bvh.bbox
    /\ bvh.right.bbox # bvh.bbox
    /\ bvh.right.left # bvh.right.right

\* C13: after any sequence of HittableList::add calls from the default list,
\* list.bounding_box() equals the enclose of the bounding boxes of all objects
\* added so far (Aabb::EMPTY when none was added), and list.objects holds
\* exactly the added objects in insertion order.
C13_ListAccumulates ==
    bvh = NoBvh =>
        /\ objects = added
        /\ bbox = IF added = <<>>
                  THEN [x_axis |-> [min |-> PosInf, max |-> NegInf],
                        y_axis |-> [min |-> PosInf, max |-> NegInf],
                        z_axis |-> [min |-> PosInf, max |-> NegInf]]
                  ELSE Hull({added[i] : i \in 1..Len(added)})

\* three different spheres were added and the box grew with each
C13_Witness ==
    /\ bvh = NoBvh
    /\ Len(added) = 3
    /\ added[1] # added[2] /\ added[2] # added[3] /\ added[1] # added[3]
    /\ bbox # Hull({added[1], added[2]})
    /\ bbox # Hull({added[3]})

----------------------------------------------------------------------------
(* Claims about pruning, under SpecHit *)

\* at this node and at every node below it: the primitive of the subtree that
\* reports a hit inside the query interval finds the node's box hit
RECURSIVE PruningKeepsHits(_)
PruningKeepsHits(obj) ==
    obj.kind = "bvh" =>
        /\ \A leaf \in SubtreeLeaves(obj) :
              LET h == SphereHit(leaf, ray, t_range)
              IN  (h.some /\ InInterval(t_range, h.t)) => AabbHit(obj.bbox, ray, t_range)
        /\ PruningKeepsHits(obj.left)
        /\ PruningKeepsHits(obj.right)

\* C17: bounding-box pruning never discards a real hit: whenever a primitive
\* in a BvhNode's subtree reports a hit with t inside the query interval, the
\* node's bbox.hit(ray, interval) returns true; a hit at a bound of the
\* interval and a ray that meets the box at a single parameter value included.
C17_PruningKeepsHits == bvh.kind = "bvh" => PruningKeepsHits(bvh)

\* the ray crosses the interior of a box and the query interval overlaps the
\* crossing in more than a point
CrossesInside(b, r, range) ==
    /\ r.dir.x # 0 \/ (b.x_axis.min < r.origin.x /\ r.origin.x < b.x_axis.max)
    /\ r.dir.y # 0 \/ (b.y_axis.min < r.origin.y /\ r.origin.y < b.y_axis.max)
    /\ r.dir.z # 0 \/ (b.z_axis.min < r.origin.z /\ r.origin.z < b.z_axis.max)
    /\ LET i1 == SlabStep(range, b.x_axis, r.origin.x, r.dir.x)
           i2 == SlabStep(i1, b.y_axis, r.origin.y, r.dir.y)
           i3 == SlabStep(i2, b.z_axis, r.origin.z, r.dir.z)
       IN  i3.min < i3.max

\* what the code does guarantee: a box whose interior the ray crosses within
\* more than a point of the interval is found hit
PruningKeepsProperCrossings ==
    bvh.kind = "bvh" => (CrossesInside(bvh.bbox, ray, t_range) => AabbHit(bvh.bbox, ray, t_range))

----------------------------------------------------------------------------
(* Claims about the BVH build, under SpecHit *)

\* the step is a call of BvhNode::new
IsBvhNew == bvh = NoBvh /\ bvh' # NoBvh

\* the number of positions of a sequence that hold the value o
Count(o, s) == Cardinality({i \in 1..Len(s) : s[i] = o})

\* the two sequences hold the same objects, each as often
SameBag(s, t) ==
    /\ Len(s) = Len(t)
    /\ \A i \in 1..Len(s) : Count(s[i], s) = Count(s[i], t)

\* the rearrangements of a sequence
Arrangements(s) ==
    LET n == Len(s)
    IN  {[i \in 1..n |-> s[f[i]]] :
            f \in {g \in [1..n -> 1..n] : \A i, j \in 1..n : i # j => g[i] # g[j]}}

\* the minimum bound of the bounding box of a sphere along an axis
MinBound(o, axis) ==
    IF axis = "X" THEN o.center.x - o.radius
    ELSE IF axis = "Y" THEN o.center.y - o.radius
    ELSE o.center.z - o.radius

\* the axis along which the box around the spheres of a sequence is longest,
\* Z before Y before X among equally long ones
LongestOf(s) ==
    LET h == Hull({s[i] : i \in 1..Len(s)})
        ex == h.x_axis.max - h.x_axis.min
        ey == h.y_axis.max - h.y_axis.min
        ez == h.z_axis.max - h.z_axis.min
    IN  IF ez >= ex /\ ez >= ey THEN "Z" ELSE IF ey >= ex THEN "Y" ELSE "X"

\* s is ascending in the minimum bound along the axis
Ascending(s, axis) ==
    \A i \in 1..(Len(s) - 1) : MinBound(s[i], axis) <= MinBound(s[i + 1], axis)

\* node is the tree the build rule gives for the slice `input`, and `slice` is
\* how the build leaves that slice
RECURSIVE BuiltFrom(_, _, _)
BuiltFrom(node, input, slice) ==
    LET n == Len(input)
        half == n \div 2
    IN  /\ node.kind = "bvh"
        /\ Len(slice) = n
        /\ IF n = 1 THEN node.left = input[1] /\ node.right = input[1] /\ slice = input
           ELSE IF n = 2 THEN node.left = input[1] /\ node.right = input[2] /\ slice = input
           ELSE \E s \in Arrangements(input) :
                   /\ Ascending(s, LongestOf(input))
                   /\ BuiltFrom(node.left, SubSeq(s, 1, half), SubSeq(slice, 1, half))
                   /\ BuiltFrom(node.right, SubSeq(s, half + 1, n), SubSeq(slice, half + 1, n))

\* the primitives at the leaves of a node built from n objects, left to right
RECURSIVE LeavesInOrder(_, _)
LeavesInOrder(node, n) ==
    IF n = 1 THEN <<node.left>>
    ELSE IF n = 2 THEN <<node.left, node.right>>
    ELSE LeavesInOrder(node.left, n \div 2) \o LeavesInOrder(node.right, n - n \div 2)

\* C21: BvhNode::from_hittables builds, for 1 object, a node whose children are
\* both that object; for 2 objects, a node whose children are the two objects
\* in their given order; for n >= 3 objects, it sorts them ascending by the
\* minimum bound of their box along the longest axis of the enclosing box and
\* builds the left subtree from the first floor(n/2) and the right subtree from
\* the remaining ones.  Every element of the input slice is a leaf of the
\* tree, and each at one place only: the leaves left to right are the slice
\* as the build leaves it, which holds the input objects, each as often.
C21_BuildStructure ==
    [][(IsBvhNew /\ bvh'.kind = "bvh") =>
          /\ BuiltFrom(bvh', objects, objects')
          /\ LeavesInOrder(bvh', Len(objects)) = objects'
          /\ SameBag(objects', objects)]_vars

\* three objects were given out of order: the sort moved them, the left child
\* holds one object twice and the right child two different ones
C21_Witness ==
    /\ bvh.kind = "bvh"
    /\ Len(added) = 3
    /\ objects # added
    /\ bvh.left.kind = "bvh" /\ bvh.left.left = bvh.left.right
    /\ bvh.right.kind = "bvh" /\ bvh.right.left # bvh.right.right

\* C22: BvhNode::new(list) terminates for every finite HittableList of n >= 0
\* objects, the empty list included: every recursive call of from_hittables
\* receives a slice strictly shorter than its caller's slice, so the recursion
\* depth is bounded.
C22_BuildTerminates ==
    bvh # NoBvh =>
        /\ bvh.kind = "bvh"
        /\ \A m \in RecursiveSlices(Len(added)) : m < Len(added)

\* what the code does guarantee: the build of a list of one or more objects
\* returns a node, and its recursive calls are on shorter slices
BuildReturnsFromOne ==
    (bvh # NoBvh /\ Len(added) >= 1) =>
        /\ bvh.kind = "bvh"
        /\ \A m \in RecursiveSlices(Len(added)) : m < Len(added)

\* the build of a list of three objects has returned
BuildOfThreeReturned == bvh.kind = "bvh" /\ Len(added) = 3

\* two results of HittableList::hit report the same t, or both report no hit
SameT(h, g) == h.some = g.some /\ (h.some => h.t = g.t)

\* C23: BvhNode::new(&mut list) changes the list only by reordering
\* list.objects: the multiset of objects in the list and list.bbox are the same
\* before and after the call, and a list of 1 or 2 objects keeps its order.
\* Consequently the t that HittableList.hit reports for any ray and interval
\* is the same before and after building a BVH from the list.
C23_BuildOnlyReorders ==
    [][IsBvhNew =>
          /\ SameBag(objects, objects')
          /\ bbox' = bbox
          /\ Len(objects) \in {1, 2} => objects' = objects
          /\ SameT(HittableListHit(objects, ray, t_range),
                   HittableListHit(objects', ray', t_range'))]_vars

\* a build has reordered the list, and the list queried afterwards reports a
\* hit whose record is not the one the list in its former order reports
C23_Witness ==
    /\ bvh.kind = "bvh"
    /\ objects # added
    /\ ~IsPending(listHit)
    /\ listHit.some
    /\ listHit # HittableListHit(added, ray, t_range)

----------------------------------------------------------------------------
(* Claims about the stripes and their workers, under SpecRender *)

\* the smaller of two numbers
Smaller(a, b) == IF a <= b THEN a ELSE b

\* split_n has returned its stripes
SplitReturned == rpc \in {"spawning", "returned"}

\* exactly min(n, H) stripes, each of at least one row, and when the render
\* call has returned one worker per stripe
StripesPerWorkerCount ==
    /\ SplitReturned =>
          /\ Len(stripes) = Smaller(nWorkers, imgH)
          /\ \A i \in 1..Len(stripes) : stripes[i].height >= 1
    /\ rpc = "returned" => Len(workers) = Len(stripes)

\* C18: a render call runs to completion without aborting for every worker
\* count n >= 0 and every image height H >= 0 (n > H and n = 0 included):
\* split_n(n) returns exactly min(n, H) stripes, each with at least one row,
\* and one worker is spawned per returned stripe.
C18_RenderCompletes ==
    /\ rpc # "panicked"
    /\ StripesPerWorkerCount

\* what the code does guarantee: the same for every worker count n >= 1 when
\* no ray_color call panics
RenderCompletesFromOne ==
    /\ rpc = "panicked" => (nWorkers = 0 \/ RayColorPanicked)
    /\ StripesPerWorkerCount

\* a render call with more workers than rows has returned
MoreWorkersThanRows ==
    /\ rpc = "returned"
    /\ imgH >= 1
    /\ nWorkers > imgH
    /\ Len(workers) = imgH

\* the sum of the heights of the first k stripes
RECURSIVE HeightsBefore(_)
HeightsBefore(k) == IF k = 0 THEN 0 ELSE HeightsBefore(k - 1) + stripes[k].height

\* C19: for N >= 1, stripe i (0-based) of split_n(N) has height floor(H / N) + 1
\* if i < H mod N and floor(H / N) otherwise; its y_offset is the sum of the
\* heights of the stripes before it; and its byte slice is exactly bytes
\* [y_offset * stride, (y_offset + height) * stride) of the image buffer, with
\* stride = 3 * width.
C19_StripeLayout ==
    (SplitReturned /\ nWorkers >= 1) =>
        \A k \in 1..Len(stripes) :
            LET sub == stripes[k]
                i == k - 1
            IN  /\ sub.height = (imgH \div nWorkers) + (IF i < imgH % nWorkers THEN 1 ELSE 0)
                /\ sub.y_offset = HeightsBefore(i)
                /\ sub.stride = 3 * imgW
                /\ sub.width = imgW
                /\ sub.lo = sub.y_offset * sub.stride
                /\ sub.lo + sub.len = (sub.y_offset + sub.height) * sub.stride

\* split_n returned three stripes for four rows: the first has the extra row
C19_Witness ==
    /\ SplitReturned
    /\ nWorkers = 3 /\ imgH = 4 /\ imgW = 2
    /\ Len(stripes) = 3
    /\ stripes[1].height = 2
    /\ stripes[3].y_offset = 3
    /\ stripes[3].lo = 18

\* one step of worker i is a put_pixel of the global pixel of its local (x, y)
PutsGlobalPixel(i) ==
    LET w == workers[i]
        gx == w.x
        gy == w.sub_image.y_offset + w.y
        index == gy * (3 * imgW) + 3 * gx
    IN  /\ \A b \in DOMAIN writes :
              IF b \in {index, index + 1, index + 2}
              THEN writes'[b] = Append(writes[b], i)
              ELSE writes'[b] = writes[b]
        /\ \A q \in DOMAIN sampled :
              sampled'[q] = IF q = <<gx, gy>> THEN sampled[q] + spp ELSE sampled[q]

\* C20: a stripe worker treats its local row y as global row y_offset + y: for
\* every pixel it samples exactly samples_per_pixel camera rays for the
\* global pixel (x, y_offset + y), and its SubImage::put_pixel(x, y) writes the
\* three bytes at (y_offset + y) * stride + 3 * x of the full buffer, those
\* Image::put_pixel(x, y_offset + y) writes in a single-threaded render.
C20_LocalRowIsGlobalRow ==
    /\ [](rpc = "returned" =>
            \A q \in DOMAIN sampled :
                /\ sampled[q] = spp
                /\ \A j \in 0..2 : Len(writes[ImagePixelIndex(q[1], q[2]) + j]) = 1)
    /\ [][\A i \in 1..Len(workers) :
            (i <= Len(workers') /\ workers'[i] # workers[i] /\ workers'[i].pc = "running")
                => PutsGlobalPixel(i)]_vars

\* a worker whose stripe starts below row 0 has put a pixel of a column
\* other than the first
C20_Witness ==
    \E i \in 1..Len(workers) :
        /\ workers[i].sub_image.y_offset > 0
        /\ workers[i].x = 0 /\ workers[i].y = 1
        /\ imgW = 2
        /\ spp = 1
        /\ sampled[<<1, workers[i].sub_image.y_offset>>] = 1

----------------------------------------------------------------------------
(* Material::scatter called on a hit: hit.material.scatter(&ray, &hit) *)

InitScatter ==
    /\ scMaterial \in Materials
    /\ scRay \in ScatterRays
    /\ scHit \in ScatterHits(scRay, scMaterial)
    /\ scRnd \in UnitVectors
    /\ scDraw \in Draws
    /\ scOut = Pending
    /\ HitIdle
    /\ RenderIdle
    /\ ColorIdle
    /\ MathIdle
    /\ SizeIdle

\* Material::scatter
ScatterCall ==
    /\ scOut = Pending
    /\ scOut' = scatter(scMaterial, scRay, scHit, scRnd, scDraw)
    /\ UNCHANGED <<scMaterial, scRay, scHit, scRnd, scDraw,
                   hitVars, renderVars, colorVars, mathVars, sizeVars>>

NextScatter == ScatterCall

SpecScatter == InitScatter /\ [][NextScatter]_vars

\* the length of a vector along an axis
AxisLength(v) ==
    (IF v.x < 0 THEN -v.x ELSE v.x) + (IF v.y < 0 THEN -v.y ELSE v.y)
        + (IF v.z < 0 THEN -v.z ELSE v.z)

\* scattered . normal of the Metal arm: the incoming direction mirrored at the
\* surface, scaled to length 1, perturbed by fuzz * random unit vector
PerturbedDotNormal ==
    LET v == scRay.dir
        n == scHit.normal
        vn == v.x * n.x + v.y * n.y + v.z * n.z
        len == AxisLength(v)
        sx == (v.x - 2 * vn * n.x) \div len + scMaterial.fuzz * scRnd.x
        sy == (v.y - 2 * vn * n.y) \div len + scMaterial.fuzz * scRnd.y
        sz == (v.z - 2 * vn * n.z) \div len + scMaterial.fuzz * scRnd.z
    IN  sx * n.x + sy * n.y + sz * n.z

\* C11: the outcome kind of Material::scatter is fixed by the variant:
\* Lambertian always scatters with its albedo; Dielectric always scatters with
\* white, on the reflect and on the refract branch; Metal returns no scatter
\* exactly when scattered . normal <= 0 and otherwise scatters with its
\* albedo; so absorption occurs only for Metal.
C11_ScatterOutcomes ==
    scOut # Pending =>
        /\ scMaterial.kind = "Lambertian" =>
              scOut.some /\ scOut.attenuation = scMaterial.albedo
        /\ scMaterial.kind = "Dielectric" =>
              scOut.some /\ scOut.attenuation = <<One, One, One>>
        /\ scMaterial.kind = "Metalic" =>
              /\ ~scOut.some <=> PerturbedDotNormal <= 0
              /\ scOut.some => scOut.attenuation = scMaterial.albedo
        /\ ~scOut.some => scMaterial.kind = "Metalic"

\* a Metal scatter call whose perturbed direction lies in the surface
\* returned None
C11_Witness ==
    /\ scOut # Pending
    /\ scMaterial.kind = "Metalic"
    /\ scMaterial.fuzz > 0
    /\ PerturbedDotNormal = 0
    /\ ~scOut.some

\* a Dielectric scatter call refracted: the ray goes on through the surface
DielectricRefracted ==
    /\ scOut # Pending
    /\ scMaterial.kind = "Dielectric"
    /\ dot(scOut.ray.dir, scHit.normal) < 0

\* a Dielectric scatter call reflected although refraction was possible
DielectricReflected ==
    /\ scOut # Pending
    /\ scMaterial.kind = "Dielectric"
    /\ dot(scRay.dir, scHit.normal) < 0
    /\ dot(scOut.ray.dir, scHit.normal) > 0

\* a Dielectric scatter call met total internal reflection
DielectricTotalReflection ==
    /\ scOut # Pending
    /\ scMaterial.kind = "Dielectric"
    /\ dot(scRay.dir, scHit.normal) = 0

\* a Lambertian scatter call fell back to the normal
LambertianDegenerate ==
    /\ scOut # Pending
    /\ scMaterial.kind = "Lambertian"
    /\ scRnd = VNeg(scHit.normal)
    /\ scOut.ray.dir = scHit.normal

\* every length, quotient and square root Material::scatter forms on the
\* inputs above is a whole number
ScatterExact ==
    \A r \in ScatterRays :
        /\ length(r.dir) * length(r.dir) = length_squared(r.dir)
        /\ Divides(length(r.dir), r.dir.x)
        /\ Divides(length(r.dir), r.dir.y)
        /\ Divides(length(r.dir), r.dir.z)
        /\ \A m \in Materials : \A h \in ScatterHits(r, m) :
              /\ length_squared(reflect(r.dir, h.normal)) = length_squared(r.dir)
              /\ m.kind = "Dielectric" =>
                    LET etaNum == IF h.is_front_face THEN 1 ELSE m.ior
                        etaDen == IF h.is_front_face THEN m.ior ELSE 1
                        n_dot_i == dot(normalized(r.dir), h.normal)
                        kk == etaDen * etaDen - etaNum * etaNum * (1 - n_dot_i * n_dot_i)
                    IN  kk >= 0 =>
                          /\ ISqrt(kk) * ISqrt(kk) = kk
                          /\ length_squared(refract(normalized(r.dir), h.normal, etaNum, etaDen)) = 1

----------------------------------------------------------------------------
(* Interval::intersect, Interval::enclose and Interval::is_empty on three *)
(* intervals                                                              *)

\* the largest finite bound of the intervals drawn
MaxCoord == 1

\* the bounds drawn: whole numbers and both infinities, no NaN
IntervalBounds == ((-MaxCoord)..MaxCoord) \cup {NegInf, PosInf}

\* every Interval::new(min, max) over them, min > max included
Intervals == {Interval(a, b) : a \in IntervalBounds, b \in IntervalBounds}

InitInterval ==
    /\ ivA \in Intervals
    /\ ivB \in Intervals
    /\ ivC \in Intervals
    /\ boxA = AabbEMPTY
    /\ boxB = AabbEMPTY
    /\ mathOut = Pending
    /\ HitIdle
    /\ RenderIdle
    /\ ColorIdle
    /\ ScatterIdle
    /\ SizeIdle

\* the calls a.intersect(b), b.intersect(a), a.intersect(b).intersect(c),
\* a.intersect(b.intersect(c)), a.intersect(EMPTY), the same for enclose,
\* and a.is_empty()
IntervalCalls ==
    /\ mathOut = Pending
    /\ mathOut' =
          [some |-> TRUE,
           i_ab |-> intersect(ivA, ivB),
           i_ba |-> intersect(ivB, ivA),
           i_ab_c |-> intersect(intersect(ivA, ivB), ivC),
           i_a_bc |-> intersect(ivA, intersect(ivB, ivC)),
           i_a_empty |-> intersect(ivA, IntervalEMPTY),
           e_ab |-> IntervalEnclose(ivA, ivB),
           e_ba |-> IntervalEnclose(ivB, ivA),
           e_ab_c |-> IntervalEnclose(IntervalEnclose(ivA, ivB), ivC),
           e_a_bc |-> IntervalEnclose(ivA, IntervalEnclose(ivB, ivC)),
           e_a_empty |-> IntervalEnclose(ivA, IntervalEMPTY),
           a_is_empty |-> is_empty(ivA)]
    /\ UNCHANGED <<ivA, ivB, ivC, boxA, boxB, hitVars, renderVars, colorVars, scatterVars, sizeVars>>

NextInterval == IntervalCalls

SpecInterval == InitInterval /\ [][NextInterval]_vars

\* C14: over intervals with non-NaN bounds (both infinities included),
\* Interval::intersect and Interval::enclose are each associative and
\* commutative, Interval::EMPTY is absorbing for intersect and the identity
\* for enclose, and is_empty() holds if and only if min >= max.
C14_IntervalLattice ==
    mathOut # Pending =>
        /\ mathOut.i_ab = mathOut.i_ba
        /\ mathOut.i_ab_c = mathOut.i_a_bc
        /\ mathOut.i_a_empty = [min |-> PosInf, max |-> NegInf]
        /\ mathOut.e_ab = mathOut.e_ba
        /\ mathOut.e_ab_c = mathOut.e_a_bc
        /\ mathOut.e_a_empty = ivA
        /\ mathOut.a_is_empty <=> ivA.min >= ivA.max

\* three different intervals, finite and infinite bounds among them, whose
\* intersection is a proper part of each and whose enclose is larger than each
C14_Witness ==
    /\ mathOut # Pending
    /\ ivA = [min |-> NegInf, max |-> 0]
    /\ ivB = [min |-> -1, max |-> 1]
    /\ ivC = [min |-> 0, max |-> PosInf]
    /\ mathOut.i_ab_c = [min |-> 0, max |-> 0]
    /\ mathOut.e_ab_c = [min |-> NegInf, max |-> PosInf]
    /\ mathOut.a_is_empty = FALSE

----------------------------------------------------------------------------
(* Aabb::enclose and Aabb::longest_axis on two boxes *)

\* the largest coordinate of the boxes drawn
MaxBox == 1

\* the intervals min <= max over the coordinates 0..MaxBox
AxisIntervals == UNION {{Interval(a, b) : b \in a..MaxBox} : a \in 0..MaxBox}

\* the boxes with min <= max on every axis
Boxes == {Aabb(x, y, z) : x \in AxisIntervals, y \in AxisIntervals, z \in AxisIntervals}

InitAabb ==
    /\ boxA \in Boxes \cup {AabbEMPTY}
    /\ boxB \in Boxes \cup {AabbEMPTY}
    /\ ivA = IntervalEMPTY
    /\ ivB = IntervalEMPTY
    /\ ivC = IntervalEMPTY
    /\ mathOut = Pending
    /\ HitIdle
    /\ RenderIdle
    /\ ColorIdle
    /\ ScatterIdle
    /\ SizeIdle

\* the calls a.enclose(b) and a.longest_axis()
AabbCalls ==
    /\ mathOut = Pending
    /\ mathOut' = [some |-> TRUE,
                   enclose |-> AabbEnclose(boxA, boxB),
                   axis |-> longest_axis(boxA)]
    /\ UNCHANGED <<ivA, ivB, ivC, boxA, boxB, hitVars, renderVars, colorVars, scatterVars, sizeVars>>

NextAabb == AabbCalls

SpecAabb == InitAabb /\ [][NextAabb]_vars

\* the eight corners of a box
Corners(b) ==
    {[x |-> x, y |-> y, z |-> z] :
        x \in {b.x_axis.min, b.x_axis.max},
        y \in {b.y_axis.min, b.y_axis.max},
        z \in {b.z_axis.min, b.z_axis.max}}

\* the point p lies in the box b
InBox(b, p) ==
    /\ b.x_axis.min <= p.x /\ p.x <= b.x_axis.max
    /\ b.y_axis.min <= p.y /\ p.y <= b.y_axis.max
    /\ b.z_axis.min <= p.z /\ p.z <= b.z_axis.max

\* C15: for two boxes A and B with min <= max on every axis, A.enclose(B)
\* contains every corner of A and every corner of B, and every axis-aligned
\* box that contains all those corners also contains A.enclose(B).
C15_EncloseSmallest ==
    (mathOut # Pending /\ boxA \in Boxes /\ boxB \in Boxes) =>
        LET corners == Corners(boxA) \cup Corners(boxB)
        IN  /\ \A p \in corners : InBox(mathOut.enclose, p)
            /\ \A c \in Boxes :
                  (\A p \in corners : InBox(c, p)) =>
                      \A q \in Corners(mathOut.enclose) : InBox(c, q)

\* two boxes neither of which contains the other, enclosed by a box larger
\* than both
C15_Witness ==
    /\ mathOut # Pending
    /\ boxA \in Boxes /\ boxB \in Boxes
    /\ \E p \in Corners(boxA) : ~InBox(boxB, p)
    /\ \E p \in Corners(boxB) : ~InBox(boxA, p)
    /\ mathOut.enclose # boxA
    /\ mathOut.enclose # boxB

\* max - min of an interval
Extent(i) == i.max - i.min

\* C16: Aabb::longest_axis returns an axis whose extent is greater than or
\* equal to that of both other axes, and on ties prefers Z over Y over X: X
\* only when its extent is strictly greater than both others, Y only when its
\* extent is >= X's and strictly greater than Z's, and Z in every other case.
C16_LongestAxis ==
    mathOut # Pending =>
        LET ex == Extent(boxA.x_axis)
            ey == Extent(boxA.y_axis)
            ez == Extent(boxA.z_axis)
            chosen == IF mathOut.axis = "X" THEN ex
                      ELSE IF mathOut.axis = "Y" THEN ey ELSE ez
        IN  /\ mathOut.axis \in {"X", "Y", "Z"}
            /\ chosen >= ex /\ chosen >= ey /\ chosen >= ez
            /\ mathOut.axis = "X" <=> (ex > ey /\ ex > ez)
            /\ mathOut.axis = "Y" <=> (ey >= ex /\ ey > ez)
            /\ mathOut.axis = "Z" <=> ~(ex > ey /\ ex > ez) /\ ~(ey >= ex /\ ey > ez)

\* X and Y tie for the longest extent and Y was returned
C16_Witness ==
    /\ mathOut # Pending
    /\ boxA \in Boxes
    /\ Extent(boxA.x_axis) = Extent(boxA.y_axis)
    /\ Extent(boxA.y_axis) > Extent(boxA.z_axis)
    /\ mathOut.axis = "Y"

----------------------------------------------------------------------------
(* The sizes of an Image: Image::new, then split_n and ppm::write on it *)

\* the widths and heights are small ones, and ones whose stride or buffer
\* length is just below or just beyond 2^32
InitSize ==
    /\ szWidth \in {0, 1, 2, 65536, 1073741824, 1431655765, 1431655766}
    /\ szHeight \in {0, 1, 2, 3, 21846, 65536}
    /\ szN \in 0..MaxWorkers
    /\ szChecks \in BOOLEAN
    /\ szImage = NotCalled
    /\ szSplit = NotCalled
    /\ szWrite = NotCalled
    /\ HitIdle
    /\ RenderIdle
    /\ ColorIdle
    /\ ScatterIdle
    /\ MathIdle

\* Image::new(width, height): the Image, a panic of width * 3, or no memory
\* for the buffer
ImageNewCall ==
    /\ szImage = NotCalled
    /\ LET img == ImageSizes(szWidth, szHeight, szChecks)
       IN  \/ szImage' = img
           \/ /\ img # SizePanic
              /\ img.len # Wide(0)
              /\ szImage' = AllocFailed
    /\ UNCHANGED <<szWidth, szHeight, szN, szChecks, szSplit, szWrite,
                   hitVars, renderVars, colorVars, scatterVars, mathVars>>

\* image.split_n(n)
SplitSizesCall ==
    /\ szImage.kind = "image"
    /\ szSplit = NotCalled
    /\ szSplit' = SplitSizes(szImage, szN, szChecks)
    /\ UNCHANGED <<szWidth, szHeight, szN, szChecks, szImage, szWrite,
                   hitVars, renderVars, colorVars, scatterVars, mathVars>>

\* image.save_as_ppm(path): File::create(path)? returns the io::Error before
\* ppm::write is called; ppm::write panics at an assertion, or passes them
\* and then returns the io::Error of a write, or writes the file
PpmWriteCall ==
    /\ szImage.kind = "image"
    /\ szWrite = NotCalled
    /\ \/ szWrite' = [kind |-> "io_error", asserted |-> FALSE]
       \/ szWrite' = PpmWrite(szImage, szChecks)
       \/ /\ PpmWrite(szImage, szChecks) # SizePanic
          /\ szWrite' = [kind |-> "io_error", asserted |-> TRUE]
    /\ UNCHANGED <<szWidth, szHeight, szN, szChecks, szImage, szSplit,
                   hitVars, renderVars, colorVars, scatterVars, mathVars>>

NextSize ==
    \/ ImageNewCall
    \/ SplitSizesCall
    \/ PpmWriteCall

SpecSize == InitSize /\ [][NextSize]_vars

\* width * height * 3, the number of bytes of the pixels of the image
TrueLength == WideMul(WideMul(Wide(szWidth), Wide(szHeight)), Wide(3))

\* the sum of the byte counts of a sequence of stripes
RECURSIVE BytesSum(_)
BytesSum(ss) ==
    IF Len(ss) = 0 THEN Wide(0) ELSE WideAdd(ss[1].bytes, BytesSum(Tail(ss)))

\* split_n returned stripes whose byte counts are the products
\* stripe_height * stride and sum to width * height * 3
SplitExact ==
    /\ szSplit.kind = "stripes"
    /\ \A i \in 1..Len(szSplit.stripes) :
          szSplit.stripes[i].bytes = WideMul(Wide(szSplit.stripes[i].height), szImage.stride)
    /\ BytesSum(szSplit.stripes) = TrueLength

\* C24: the 32-bit unsigned size computations never wrap: for every image
\* that Image::new allocates and every n >= 1, stride = width * 3 and each
\* stripe's byte_count = stripe_height * stride in split_n are below 2^32, so
\* the byte counts of the returned stripes sum to exactly width * height * 3;
\* and in ppm::write the values pixels.len() as u32 and width * height * 3
\* equal the true buffer length, so its size assertion passes for every Image.
C24_SizesNeverWrap ==
    szImage.kind = "image" =>
        /\ szImage.stride = WideMul(Wide(szWidth), Wide(3))
        /\ FitsU32(szImage.stride)
        /\ (szSplit # NotCalled /\ szN >= 1) => SplitExact
        /\ szWrite.kind # "panic"

\* what the code does guarantee: for an image of fewer than 2^32 bytes every
\* size is exact, split_n with n >= 1 returns stripes that sum to the buffer
\* and ppm::write passes its assertions
SizesExactBelowWordSize ==
    (szImage.kind = "image" /\ FitsU32(TrueLength)
        /\ (szHeight = 0 => FitsU32(WideMul(Wide(szWidth), Wide(3))))) =>
        /\ szImage.stride = WideMul(Wide(szWidth), Wide(3))
        /\ szImage.len = TrueLength
        /\ (szSplit # NotCalled /\ szN >= 1) => SplitExact
        /\ szWrite.kind # "panic"

\* an image of several rows was split into as many stripes and written
SizesExactReached ==
    /\ szImage.kind = "image"
    /\ szHeight = 3 /\ szN = 3 /\ szWidth = 65536
    /\ szSplit # NotCalled /\ SplitExact
    /\ szWrite # NotCalled /\ szWrite.kind = "written"

\* Image::new(65536, 21846) holds 2^32 + 131072 bytes: without overflow checks
\* split_n(1) returns one stripe of 131072 bytes, and ppm::write panics
WrappedSplitReached ==
    /\ szWidth = 65536 /\ szHeight = 21846 /\ szN = 1 /\ ~szChecks
    /\ szImage.kind = "image"
    /\ FitsU32(szImage.stride) /\ ~FitsU32(szImage.len)
    /\ szSplit.kind = "stripes"
    /\ Len(szSplit.stripes) = 1
    /\ szSplit.stripes[1].bytes = Wide(131072)
    /\ szWrite = SizePanic

\* the same image in a build with overflow checks: split_n(1) panics, and so
\* does ppm::write
CheckedSplitPanics ==
    /\ szWidth = 65536 /\ szHeight = 21846 /\ szN = 1 /\ szChecks
    /\ szImage.kind = "image"
    /\ szSplit = SizePanic
    /\ szWrite = SizePanic

=============================================================================
